---- MODULE Spec2Model ----
(***************************************************************************)
(* Invoice verification: the decision pipeline (matching, price            *)
(* validation, rule engine, judge) and the proposal approval loop, as      *)
(* state machines over an abstract Catalog Store.                          *)
(*                                                                         *)
(* Conventions.  Text is a sequence of one-character strings.  Prices are  *)
(* integers (multiples of 20 on input, so that x1.05 and x0.95 stay        *)
(* integral).  Ratios (confidences, scores) are exact fractions            *)
(* [n |-> numerator, d |-> denominator] compared by cross-multiplication.  *)
(* An optional value is a sequence of length 0 (None) or 1.                *)
(***************************************************************************)
EXTENDS Integers, Sequences, FiniteSets, TLC

VARIABLES
    \* ---- Catalog Store tables ----
    canonical_items,      \* seq of [id, name]
    synonyms,             \* seq of [canonical_item_id, synonym, confidence]
    item_price_ranges,    \* seq of [canonical_item_id, min_price, max_price]
    business_rules,       \* seq of rule payloads
    agent_proposals,      \* seq of [id, proposal_type, payload, status, approved_by]
    agent_events,         \* seq of [stage, line_item_id]
    agent_judgements,     \* seq of [line_item_id, scores, verdict]
    agent_golden_labels,  \* seq of gold label rows
    \* ---- configuration (environment flags read at construction) ----
    enabled, dry_run, allow_approve_in_dry_run, judge_enabled,
    \* ---- tool caches ----
    canonical_cache, synonym_cache, price_range_cache,
    rules_price_ranges_cache, gold_cache,
    \* ---- one run_crew call ----
    items, vendor_id, run_pc, line_items, cur, match_result, price_result,
    item_proposals, decisions, all_proposals, result, match_results,
    \* ---- approval requests ----
    reqs,
    \* ---- DeterministicJudge.verdict applied to a score dictionary ----
    scores_dict, verdict_out,
    \* ---- the OpenRouter LLM client (llm/client.py) ----
    llm_env,              \* [api_key, openai_ok]: the process environment
    llm_client,           \* None, or <<the global OpenRouterClient>>
    llm_calls,            \* seq of records, one per call made on the client
    \* ---- history ----
    uuid_counter,         \* number of uuid4() calls made so far
    stage_calls,          \* seq of [stage, line_item_id]: stage invocations
    create_calls,         \* seq of records, one per create_proposal call
    apply_writes          \* seq of [proposal_id, table]: Catalog writes by apply

store_vars == <<canonical_items, synonyms, item_price_ranges, business_rules,
                agent_proposals, agent_events, agent_judgements,
                agent_golden_labels>>
config_vars == <<enabled, dry_run, allow_approve_in_dry_run, judge_enabled>>
cache_vars == <<canonical_cache, synonym_cache, price_range_cache,
                rules_price_ranges_cache, gold_cache>>
run_vars == <<items, vendor_id, run_pc, line_items, cur, match_result,
              price_result, item_proposals, decisions, all_proposals, result,
              match_results>>
verdict_vars == <<scores_dict, verdict_out>>
llm_vars == <<llm_env, llm_client, llm_calls>>
hist_vars == <<uuid_counter, stage_calls, create_calls, apply_writes>>
vars == <<store_vars, config_vars, cache_vars, run_vars, reqs, verdict_vars,
          llm_vars, hist_vars>>

----------------------------------------------------------------------------
(* Bounds *)
MaxItems == 2
MaxScoreKeys == 3
MaxReqs == 2
MaxProposals == 1
MaxJobEntries == 2
MaxJobs == 1

----------------------------------------------------------------------------
(* Basic values *)
NoneS == "None"                       \* Python None where a string is expected
None == <<>>                          \* Python None where an object is expected
Some(x) == <<x>>
IsNone(o) == o = <<>>
Get(o) == o[1]

R(n, d) == [n |-> n, d |-> d]
RLess(a, b) == a.n * b.d < b.n * a.d
RLeq(a, b) == a.n * b.d <= b.n * a.d
REq(a, b) == a.n * b.d = b.n * a.d

RECURSIVE SeqToSet(_)
SeqToSet(s) == IF s = <<>> THEN {} ELSE {Head(s)} \cup SeqToSet(Tail(s))

----------------------------------------------------------------------------
(* Text: str.lower(), str.strip(), re.sub(r'\s+', ' ', ...) *)
LowerChar(c) == CASE c = "A" -> "a"
                  [] c = "B" -> "b"
                  [] c = "C" -> "c"
                  [] OTHER -> c
lower(s) == [i \in 1..Len(s) |-> LowerChar(s[i])]

RECURSIVE lstrip(_)
lstrip(s) == IF s # <<>> /\ Head(s) = " " THEN lstrip(Tail(s)) ELSE s
RECURSIVE rstrip(_)
rstrip(s) == IF s # <<>> /\ s[Len(s)] = " "
             THEN rstrip(SubSeq(s, 1, Len(s) - 1)) ELSE s
strip(s) == rstrip(lstrip(s))

RECURSIVE collapse_spaces(_)
collapse_spaces(s) ==
    IF Len(s) < 2 THEN s
    ELSE IF s[1] = " " /\ s[2] = " " THEN collapse_spaces(Tail(s))
    ELSE <<s[1]>> \o collapse_spaces(Tail(s))

\* rapidfuzz.fuzz.ratio / 100: normalized Indel similarity 2*LCS/(|a|+|b|)
RECURSIVE LCS(_, _)
LCS(a, b) ==
    IF a = <<>> \/ b = <<>> THEN 0
    ELSE IF Head(a) = Head(b) THEN 1 + LCS(Tail(a), Tail(b))
    ELSE LET x == LCS(Tail(a), b)
             y == LCS(a, Tail(b))
         IN IF x >= y THEN x ELSE y

ratio(a, b) == IF Len(a) + Len(b) = 0 THEN R(1, 1)
               ELSE R(2 * LCS(a, b), Len(a) + Len(b))

----------------------------------------------------------------------------
(* Catalog Store reads (SupabaseTool).  store_ok = FALSE models the query   *)
(* raising: every getter catches the exception and returns [].             *)
get_canonical_items(store_ok) == IF store_ok THEN canonical_items ELSE <<>>
get_synonyms(store_ok) == IF store_ok THEN synonyms ELSE <<>>
get_price_ranges(store_ok) == IF store_ok THEN item_price_ranges ELSE <<>>

\* dict built from a list of rows: the last row with the key wins
LastIdx(hits) ==
    IF hits = {} THEN 0 ELSE CHOOSE i \in hits : \A j \in hits : j <= i

\* a scan that stops at the first row that passes the test
FirstIdx(hits) ==
    IF hits = {} THEN 0 ELSE CHOOSE i \in hits : \A j \in hits : i <= j

\* {item.id: item for item in canonical_items}.get(id)
canonical_lookup(canon, id) ==
    LET Has(it) == it.id = id
        k == LastIdx({i \in 1..Len(canon) : Has(canon[i])})
    IN IF k = 0 THEN None ELSE Some(canon[k])

\* {r.canonical_item_id: r for r in ranges}.get(id)
price_range_get(ranges, id) ==
    LET Has(r) == r.canonical_item_id = id
        k == LastIdx({i \in 1..Len(ranges) : Has(ranges[i])})
    IN IF k = 0 THEN None ELSE Some(ranges[k])

\* outcomes of a step's store round trips: a step that makes none besides
\* event logging is not split on the store failing
StoreOutcomes(round_trip) == IF round_trip THEN BOOLEAN ELSE {TRUE}

\* variant: the cache is never consulted, every call loads again
cached_or_mut(cache, loaded) == Some(loaded)

\* cache-or-load: "if self._cache is None: self._cache = load()"
cached_or(cache, loaded) == IF IsNone(cache) THEN Some(loaded) ELSE cache

\* SupabaseTool.log_event: the insert happens only outside dry-run, and any
\* exception is swallowed
log_event(events, dry, store_ok, line_item_id, stage) ==
    IF ~dry /\ store_ok
    THEN Append(events, [stage |-> stage, line_item_id |-> line_item_id])
    ELSE events

RECURSIVE log_events(_, _, _, _, _)
log_events(events, dry, store_ok, line_item_id, stages) ==
    IF stages = <<>> THEN events
    ELSE log_events(log_event(events, dry, store_ok, line_item_id, Head(stages)),
                    dry, store_ok, line_item_id, Tail(stages))

\* proposal identifiers
NoId == [src |-> "none", n |-> 0]
LocalId(k) == [src |-> "uuid4", n |-> k]
DbId(k) == [src |-> "db", n |-> k]

\* SupabaseTool.create_proposal, as the effect on (agent_proposals,
\* agent_events, uuid_counter) and the returned id
create_proposal(proposals, events, uuids, dry, store_ok, proposal_type, payload) ==
    IF dry
    THEN [proposals |-> proposals,
          events |-> log_event(events, dry, store_ok, NoneS, "PROPOSAL_DRY_RUN"),
          uuids |-> uuids + 1,
          id |-> LocalId(uuids + 1)]
    ELSE IF store_ok
    THEN [proposals |-> Append(proposals,
                          [id |-> DbId(Len(proposals) + 1),
                           proposal_type |-> proposal_type,
                           payload |-> payload,
                           status |-> "PENDING",
                           approved_by |-> NoneS]),
          events |-> events,
          uuids |-> uuids,
          id |-> DbId(Len(proposals) + 1)]
    ELSE [proposals |-> proposals,
          events |-> log_event(events, dry, store_ok, NoneS, "ERROR"),
          uuids |-> uuids,
          id |-> NoId]

\* one record per create_proposal call, for the history variable
create_call(before_p, before_e, dry, store_ok, proposal_type, payload, out) ==
    [dry_run |-> dry, store_ok |-> store_ok, proposal_type |-> proposal_type,
     payload |-> payload,
     proposals_before |-> before_p, proposals_after |-> out.proposals,
     events_before |-> before_e, events_after |-> out.events,
     id |-> out.id]

----------------------------------------------------------------------------
(* Matching Engine (MatchingTool) *)
MatchResult(cid, cname, conf, mtype, pid) ==
    [canonical_item_id |-> cid, canonical_name |-> cname, confidence |-> conf,
     match_type |-> mtype, proposal_id |-> pid]

NoMatch == MatchResult(NoneS, <<>>, R(0, 1), "none", NoId)

try_exact_match(description_clean, canon) ==
    LET Hit(it) == strip(lower(it.name)) = description_clean
        k == FirstIdx({i \in 1..Len(canon) : Hit(canon[i])})
    IN IF k = 0 THEN None
       ELSE Some(MatchResult(canon[k].id, canon[k].name, R(1, 1), "exact", NoId))

\* variant: a synonym hit is reported with confidence 1.0
try_synonym_match_mut(description_clean, syns, canon) ==
    LET Hit(sy) == /\ strip(lower(sy.synonym)) = description_clean
                   /\ ~IsNone(canonical_lookup(canon, sy.canonical_item_id))
        k == FirstIdx({i \in 1..Len(syns) : Hit(syns[i])})
    IN IF k = 0 THEN None
       ELSE Some(MatchResult(syns[k].canonical_item_id,
                             Get(canonical_lookup(canon, syns[k].canonical_item_id)).name,
                             R(1, 1), "synonym", NoId))

try_synonym_match(description_clean, syns, canon) ==
    LET Hit(sy) == /\ strip(lower(sy.synonym)) = description_clean
                   /\ ~IsNone(canonical_lookup(canon, sy.canonical_item_id))
        k == FirstIdx({i \in 1..Len(syns) : Hit(syns[i])})
    IN IF k = 0 THEN None
       ELSE Some(MatchResult(syns[k].canonical_item_id,
                             Get(canonical_lookup(canon, syns[k].canonical_item_id)).name,
                             syns[k].confidence, "synonym", NoId))

\* the two scoring loops of _try_fuzzy_match; best = [score, item]
RECURSIVE fuzzy_canonical_loop(_, _, _, _)
fuzzy_canonical_loop(description_clean, canon, k, best) ==
    IF k > Len(canon) THEN best
    ELSE LET score == ratio(description_clean, lower(canon[k].name))
         IN fuzzy_canonical_loop(description_clean, canon, k + 1,
                IF RLess(best.score, score)
                THEN [score |-> score, item |-> Some(canon[k])]
                ELSE best)

RECURSIVE fuzzy_synonym_loop(_, _, _, _, _)
fuzzy_synonym_loop(description_clean, syns, canon, k, best) ==
    IF k > Len(syns) THEN best
    ELSE LET score == ratio(description_clean, lower(syns[k].synonym))
             citem == canonical_lookup(canon, syns[k].canonical_item_id)
         IN fuzzy_synonym_loop(description_clean, syns, canon, k + 1,
                IF RLess(best.score, score) /\ ~IsNone(citem)
                THEN [score |-> score, item |-> citem]
                ELSE best)

fuzzy_best(description_clean, canon, syns) ==
    fuzzy_synonym_loop(description_clean, syns, canon, 1,
        fuzzy_canonical_loop(description_clean, canon, 1,
                             [score |-> R(0, 1), item |-> None]))

\* variant: the proposal band is open at its lower end
fuzzy_wants_proposal_mut(best) ==
    /\ RLess(R(3, 4), best.score) /\ RLeq(best.score, R(17, 20))
    /\ ~IsNone(best.item)

\* "if 0.75 <= best_score <= 0.85 and best_item"
fuzzy_wants_proposal(best) ==
    /\ RLeq(R(3, 4), best.score) /\ RLeq(best.score, R(17, 20))
    /\ ~IsNone(best.item)

\* variant: the acceptance threshold is 0.5
fuzzy_accepts_mut(best) == RLeq(R(1, 2), best.score)

\* "if best_score >= 0.6"
fuzzy_accepts(best) == RLeq(R(3, 5), best.score)

synonym_payload(description_clean, best) ==
    [keys |-> {"canonical_item_id", "synonym", "confidence",
               "original_description_length"},
     canonical_item_id |-> Get(best.item).id, synonym |-> description_clean,
     confidence |-> best.score, new_range |-> <<>>, rule_type |-> NoneS,
     name |-> <<>>]

\* which branch of match_item answers: "exact", "synonym", "fuzzy", "none"
match_branch(description_clean, canon, syns) ==
    IF ~IsNone(try_exact_match(description_clean, canon)) THEN "exact"
    ELSE IF ~IsNone(try_synonym_match(description_clean, syns, canon)) THEN "synonym"
    ELSE IF fuzzy_accepts(fuzzy_best(description_clean, canon, syns)) THEN "fuzzy"
    ELSE "none"

\* match_item without its side effects; pid is the id create_proposal returned
match_item(description_clean, canon, syns, pid) ==
    LET b == match_branch(description_clean, canon, syns)
        best == fuzzy_best(description_clean, canon, syns)
    IN CASE b = "exact" -> Get(try_exact_match(description_clean, canon))
         [] b = "synonym" -> Get(try_synonym_match(description_clean, syns, canon))
         [] b = "fuzzy" -> MatchResult(Get(best.item).id, Get(best.item).name,
                                       best.score, "fuzzy", pid)
         [] OTHER -> NoMatch

----------------------------------------------------------------------------
(* Price Validator (PricingTool) *)
PriceValidationResult(valid, range, variance, pid) ==
    [is_valid |-> valid, expected_range |-> range, variance_percent |-> variance,
     proposal_id |-> pid]

\* ZeroDivisionError in the variance computation
price_raises(unit_price, price_range) ==
    /\ ~IsNone(price_range)
    /\ \/ unit_price < Get(price_range).min_price /\ Get(price_range).min_price = 0
       \/ /\ ~(unit_price < Get(price_range).min_price)
          /\ unit_price > Get(price_range).max_price
          /\ Get(price_range).max_price = 0

variance_percent(unit_price, min_price, max_price) ==
    IF unit_price < min_price THEN R(min_price - unit_price, min_price)
    ELSE IF unit_price > max_price THEN R(unit_price - max_price, max_price)
    ELSE R(0, 1)

\* variant: a variance of exactly 0.20 is significant
variance_significant_mut(v) == RLeq(R(1, 5), v)

\* "variance_percent > self.variance_threshold" (0.20)
variance_significant(v) == RLess(R(1, 5), v)

price_payload(cid, unit_price, min_price, max_price) ==
    [keys |-> {"canonical_item_id", "old_range", "new_range", "reason",
               "variance_percent", "triggering_price"},
     canonical_item_id |-> cid, synonym |-> <<>>, confidence |-> R(0, 1),
     new_range |-> IF unit_price < min_price
                   THEN <<(unit_price * 19) \div 20, max_price>>
                   ELSE <<min_price, (unit_price * 21) \div 20>>,
     rule_type |-> NoneS, name |-> <<>>]

price_wants_proposal(cid, unit_price, price_range) ==
    /\ cid # NoneS /\ ~IsNone(price_range)
    /\ variance_significant(variance_percent(unit_price,
            Get(price_range).min_price, Get(price_range).max_price))

validate_price(cid, unit_price, price_range, pid) ==
    IF cid = NoneS \/ IsNone(price_range)
    THEN PriceValidationResult(TRUE, None, None, NoId)
    ELSE LET mn == Get(price_range).min_price
             mx == Get(price_range).max_price
         IN PriceValidationResult(mn <= unit_price /\ unit_price <= mx,
                Some(<<mn, mx>>), Some(variance_percent(unit_price, mn, mx)), pid)

----------------------------------------------------------------------------
(* Rule Engine (RulesTool) *)
_check_vendor_exclusion(vendor) == NoneS
_check_quantity_limits(cid, quantity) == NoneS
_check_item_blacklist(cid) == NoneS

\* _explain: one sentence per policy code, carried with the features of the
\* rendered text that ExplanationJudge reads (its length for three-digit
\* prices, whether it holds a digit, a sentence mark, the code itself)
_explain(code, unit_price) ==
    CASE code = "NO_CANONICAL_MATCH" ->
            [text |-> "No matching catalog item found for this description",
             length |-> 51, numeric |-> FALSE, sentence |-> FALSE,
             mentions_code |-> FALSE]
      [] code = "NO_PRICE_BAND" ->
            [text |-> "No price range data available for this item",
             length |-> 43, numeric |-> FALSE, sentence |-> FALSE,
             mentions_code |-> FALSE]
      [] code = "PRICE_EXCEEDS_MAX_150" ->
            [text |-> "Price {price} exceeds allowed max 1.5x (cap {max_allowed:.2f}, band max {band_max:.2f})",
             length |-> 66, numeric |-> TRUE, sentence |-> TRUE,
             mentions_code |-> FALSE]
      [] code = "PRICE_BELOW_MIN_50" ->
            [text |-> "Price {price} below allowed min 0.5x (floor {min_allowed:.2f}, band min {band_min:.2f})",
             length |-> 64, numeric |-> TRUE, sentence |-> TRUE,
             mentions_code |-> FALSE]
      [] OTHER ->
            [text |-> "Policy violation: {policy_code}",
             length |-> 40, numeric |-> FALSE, sentence |-> FALSE,
             mentions_code |-> TRUE]

RuleResult(decision, codes, unit_price, conf) ==
    [decision |-> decision, policy_codes |-> codes,
     reasons |-> [i \in 1..Len(codes) |-> _explain(codes[i], unit_price)],
     confidence |-> conf]

\* variant: the NO_PRICE_BAND branch appends its code but leaves the decision
rules_price_checks_mut(cid, unit_price, price_band) ==
    IF cid = NoneS
    THEN [decision |-> "NEEDS_MORE_INFO", codes |-> <<"NO_CANONICAL_MATCH">>,
          conf |-> R(9, 10)]
    ELSE IF IsNone(price_band)
    THEN [decision |-> "ALLOW", codes |-> <<"NO_PRICE_BAND">>, conf |-> R(8, 10)]
    ELSE IF 2 * unit_price > 3 * Get(price_band).max_price
    THEN [decision |-> "DENY", codes |-> <<"PRICE_EXCEEDS_MAX_150">>,
          conf |-> R(95, 100)]
    ELSE IF Get(price_band).min_price > 0 /\ 2 * unit_price < Get(price_band).min_price
    THEN [decision |-> "DENY", codes |-> <<"PRICE_BELOW_MIN_50">>,
          conf |-> R(95, 100)]
    ELSE [decision |-> "ALLOW", codes |-> <<>>, conf |-> R(1, 1)]

\* rules 1-4: the canonical / price-band checks; st = [decision, codes, conf]
rules_price_checks(cid, unit_price, price_band) ==
    IF cid = NoneS
    THEN [decision |-> "NEEDS_MORE_INFO", codes |-> <<"NO_CANONICAL_MATCH">>,
          conf |-> R(9, 10)]
    ELSE IF IsNone(price_band)
    THEN [decision |-> "NEEDS_MORE_INFO", codes |-> <<"NO_PRICE_BAND">>,
          conf |-> R(8, 10)]
    ELSE IF 2 * unit_price > 3 * Get(price_band).max_price
    THEN [decision |-> "DENY", codes |-> <<"PRICE_EXCEEDS_MAX_150">>,
          conf |-> R(95, 100)]
    ELSE IF Get(price_band).min_price > 0 /\ 2 * unit_price < Get(price_band).min_price
    THEN [decision |-> "DENY", codes |-> <<"PRICE_BELOW_MIN_50">>,
          conf |-> R(95, 100)]
    ELSE [decision |-> "ALLOW", codes |-> <<>>, conf |-> R(1, 1)]

\* rules 5-7: a rule id returned by a check appends "<prefix><id>" and denies
rules_rule_check(st, prefix, rule_id) ==
    IF rule_id # NoneS
    THEN [decision |-> "DENY", codes |-> Append(st.codes, <<prefix, rule_id>>),
          conf |-> R(1, 1)]
    ELSE st

\* variant: an invalid price or a match confidence below 0.7 asks for more
\* information
apply_rules_gated(cid, unit_price, quantity, match_confidence, price_is_valid, price_band, vendor) ==
    LET s4 == rules_price_checks(cid, unit_price, price_band)
    IN IF s4.codes = <<>> /\ (~price_is_valid \/ RLess(match_confidence, R(7, 10)))
       THEN RuleResult("NEEDS_MORE_INFO", <<>>, unit_price, R(1, 2))
       ELSE IF s4.codes = <<>>
       THEN RuleResult("ALLOW", s4.codes, unit_price, R(1, 1))
       ELSE RuleResult(s4.decision, s4.codes, unit_price, s4.conf)

\* variant: a fired code never raises the decision above NEEDS_MORE_INFO
apply_rules_mut(cid, unit_price, quantity, match_confidence, price_is_valid, price_band, vendor) ==
    LET s4 == rules_price_checks(cid, unit_price, price_band)
    IN IF s4.codes = <<>>
       THEN RuleResult("ALLOW", s4.codes, unit_price, R(1, 1))
       ELSE RuleResult("NEEDS_MORE_INFO", s4.codes, unit_price, s4.conf)

apply_rules(cid, unit_price, quantity, match_confidence, price_is_valid, price_band, vendor) ==
    LET s4 == rules_price_checks(cid, unit_price, price_band)
        s5 == rules_rule_check(s4, "VENDOR_EXCLUDED_BY_RULE:",
                               _check_vendor_exclusion(vendor))
        s6 == rules_rule_check(s5, "QUANTITY_OVER_LIMIT:",
                               _check_quantity_limits(cid, quantity))
        s7 == rules_rule_check(s6, "BLACKLISTED_ITEM:",
                               _check_item_blacklist(cid))
    IN IF s7.codes = <<>>
       THEN RuleResult("ALLOW", s7.codes, unit_price, R(1, 1))
       ELSE RuleResult(s7.decision, s7.codes, unit_price, s7.conf)

\* RulesTool._get_price_band on the rules tool's own cache of plain dicts
rules_price_band(ranges, cid) == price_range_get(ranges, cid)

----------------------------------------------------------------------------
(* Judge subsystem (judges.py) *)
\* stable_fingerprint: sha256 of "normalized||vendor", kept as the pair hashed
stable_fingerprint(description, vendor) ==
    <<collapse_spaces(strip(lower(description))), vendor>>

\* DeterministicJudge._get_gold_label: the label (or None) and the cache after
gold_label_fetch(fingerprint, cache, labels, store_ok) ==
    LET Has(row) == row.line_item_fingerprint = fingerprint
        k == FirstIdx({i \in 1..Len(labels) : Has(labels[i])})
    IN IF fingerprint \in DOMAIN cache THEN cache[fingerprint]
       ELSE IF store_ok /\ k # 0 THEN Some(labels[k])
       ELSE None

gold_cache_put(cache, fingerprint, gold) ==
    [f \in DOMAIN cache \cup {fingerprint} |->
        IF f \in DOMAIN cache THEN cache[f] ELSE gold]

\* variant: a missing gold label scores 0
score_decision_mut(actual_decision, gold) ==
    IF IsNone(gold) THEN Some(R(0, 1))
    ELSE Some(IF actual_decision = Get(gold).expected_decision
              THEN R(1, 1) ELSE R(0, 1))

score_decision(actual_decision, gold) ==
    IF IsNone(gold) THEN None
    ELSE Some(IF actual_decision = Get(gold).expected_decision
              THEN R(1, 1) ELSE R(0, 1))

score_policy(policy_codes, gold) ==
    IF IsNone(gold) THEN None
    ELSE LET actual_set == SeqToSet(policy_codes)
             expected_set == SeqToSet(Get(gold).expected_policy_codes)
         IN IF actual_set = {} /\ expected_set = {} THEN Some(R(1, 1))
            ELSE Some(R(Cardinality(actual_set \cap expected_set),
                        Cardinality(actual_set \cup expected_set)))

score_match(cid, gold) ==
    IF IsNone(gold) THEN None
    ELSE Some(IF cid = Get(gold).expected_canonical_id THEN R(1, 1) ELSE R(0, 1))

PriceCodes == {"PRICE_EXCEEDS_MAX_150", "PRICE_BELOW_MIN_50"}

\* variant: the decision is not compared
score_price_check_mut(unit_price, price_band, decision, policy_codes) ==
    IF IsNone(price_band) THEN None
    ELSE LET mn == Get(price_band).min_price
             mx == Get(price_band).max_price
             expected_codes ==
                 IF 2 * unit_price > 3 * mx THEN {"PRICE_EXCEEDS_MAX_150"}
                 ELSE IF mn > 0 /\ 2 * unit_price < mn THEN {"PRICE_BELOW_MIN_50"}
                 ELSE {}
             actual_price_codes == SeqToSet(policy_codes) \cap PriceCodes
         IN Some(IF actual_price_codes = expected_codes THEN R(1, 1) ELSE R(0, 1))

score_price_check(unit_price, price_band, decision, policy_codes) ==
    IF IsNone(price_band) THEN None
    ELSE LET mn == Get(price_band).min_price
             mx == Get(price_band).max_price
             expected_codes ==
                 IF 2 * unit_price > 3 * mx THEN {"PRICE_EXCEEDS_MAX_150"}
                 ELSE IF mn > 0 /\ 2 * unit_price < mn THEN {"PRICE_BELOW_MIN_50"}
                 ELSE {}
             actual_price_codes == SeqToSet(policy_codes) \cap PriceCodes
         IN IF expected_codes # {}
            THEN Some(IF decision = "DENY" /\ actual_price_codes = expected_codes
                      THEN R(1, 1) ELSE R(0, 1))
            ELSE Some(IF actual_price_codes # {} THEN R(0, 1) ELSE R(1, 1))

RECURSIVE joined_length(_)
\* len(' '.join(reasons))
joined_length(reasons) ==
    IF reasons = <<>> THEN 0
    ELSE IF Len(reasons) = 1 THEN reasons[1].length
    ELSE reasons[1].length + 1 + joined_length(Tail(reasons))

\* ExplanationJudge._score_with_heuristics, in tenths
_score_with_heuristics(reasons, policy_codes) ==
    LET length == joined_length(reasons)
        a == IF 30 <= length /\ length <= 300 THEN 4
             ELSE IF length > 10 THEN 2 ELSE 0
        b == IF \E i \in 1..Len(reasons) : reasons[i].mentions_code THEN 3 ELSE 0
        c == IF \E i \in 1..Len(reasons) : reasons[i].numeric THEN 2 ELSE 0
        d == IF \E i \in 1..Len(reasons) : reasons[i].sentence THEN 1 ELSE 0
        t == a + b + c + d
    IN IF length = 0 THEN R(0, 10) ELSE R(IF t > 10 THEN 10 ELSE t, 10)

\* variant: the WARN band is closed at 0.8
verdict_mut(scores) ==
    LET present_scores == {k \in DOMAIN scores : ~IsNone(scores[k])}
        min_key == CHOOSE k \in present_scores :
                      \A j \in present_scores : RLeq(Get(scores[k]), Get(scores[j]))
        min_score == Get(scores[min_key])
    IN IF present_scores = {} THEN "PASS"
       ELSE IF RLess(min_score, R(6, 10)) THEN "FAIL"
       ELSE IF RLeq(min_score, R(8, 10)) THEN "WARN"
       ELSE "PASS"

\* DeterministicJudge.verdict over a dict key -> optional score
verdict(scores) ==
    LET present_scores == {k \in DOMAIN scores : ~IsNone(scores[k])}
        min_key == CHOOSE k \in present_scores :
                      \A j \in present_scores : RLeq(Get(scores[k]), Get(scores[j]))
        min_score == Get(scores[min_key])
    IN IF present_scores = {} THEN "PASS"
       ELSE IF RLess(min_score, R(6, 10)) THEN "FAIL"
       ELSE IF RLess(min_score, R(8, 10)) THEN "WARN"
       ELSE "PASS"

\* the scores dict built by JudgeRunner.judge_line_item
judge_scores(decision_data, unit_price, price_band, gold) ==
    [k \in {"decision_correct", "policy_justified", "match_correct",
            "price_check_correct", "reason_quality"} |->
        CASE k = "decision_correct" -> score_decision(decision_data.decision, gold)
          [] k = "policy_justified" -> score_policy(decision_data.policy_codes, gold)
          [] k = "match_correct" -> score_match(decision_data.canonical_item_id, gold)
          [] k = "price_check_correct" ->
                score_price_check(unit_price, price_band, decision_data.decision,
                                  decision_data.policy_codes)
          [] OTHER -> IF decision_data.reasons # <<>>
                      THEN Some(_score_with_heuristics(decision_data.reasons,
                                                       decision_data.policy_codes))
                      ELSE None]

\* "{k: v for k, v in scores.items() if v is not None}"
present_only(scores) ==
    [k \in {x \in DOMAIN scores : ~IsNone(scores[x])} |-> Get(scores[k])]

----------------------------------------------------------------------------
(* Data the runs are drawn from *)
CanonicalTable ==
    << [id |-> "c1", name |-> <<"A", "b", "c", "a">>],
       [id |-> "c2", name |-> <<"c", "c">>],
       [id |-> "c3", name |-> <<"C", "a">>] >>

SynonymTable ==
    << [canonical_item_id |-> "c1", synonym |-> <<"a", "b", " ", "a">>,
        confidence |-> R(9, 10)],
       [canonical_item_id |-> "c9", synonym |-> <<"b">>, confidence |-> R(1, 1)] >>

Band(cid, mn, mx) == [canonical_item_id |-> cid, min_price |-> mn, max_price |-> mx]

\* c1 has a band, c2 an anomalous band (min = max = 0), c3 has none
PriceTable == <<Band("c1", 100, 200), Band("c2", 0, 0)>>

\* one gold label, for the description "abca" of vendor v1
GoldTable ==
    << [line_item_fingerprint |-> <<<<"a", "b", "c", "a">>, "v1">>,
        expected_decision |-> "ALLOW", expected_canonical_id |-> "c1",
        expected_policy_codes |-> <<>>] >>

Num(v) == [kind |-> "num", v |-> v]
NotNumeric == [kind |-> "str", v |-> 0]       \* e.g. "abc"
Missing == [kind |-> "missing", v |-> 0]      \* key absent
Str(v) == [kind |-> "str", v |-> v]
Null == [kind |-> "null", v |-> <<>>]         \* description: None

RawItem(id, description, quantity, unit_price) ==
    [id |-> id, description |-> description, quantity |-> quantity,
     unit_price |-> unit_price]

ItemPool ==
    { RawItem("i1", Str(<<" ", "a", "b", "c", "a">>), Num(2), Num(160)),
      RawItem("i2", Str(<<"a", "b", "c", "b">>), Num(1), Num(320)),
      RawItem("i1", Str(<<"b">>), Num(1), Num(100)),
      RawItem("i2", Str(<<"A", "B", " ", "A">>), Num(3), Num(40)),
      RawItem("i3", Str(<<"C", "a">>), Num(1), Num(100)),
      RawItem("i3", Str(<<"c", "c">>), Num(1), Num(20)),
      RawItem("i2", Null, Num(1), Num(100)),
      RawItem("i2", Str(<<"a", "b">>), NotNumeric, Num(100)),
      RawItem("i1", Str(<<"a", "b">>), Num(1), Missing),
      RawItem("i3", Str(<<" ">>), Num(1), Num(100)) }

ItemSeqs == UNION {[1..n -> ItemPool] : n \in 0..MaxItems}

----------------------------------------------------------------------------
(* Pipeline Orchestrator (CrewRunner) *)
LineItem(raw) ==
    [id |-> raw.id, description |-> raw.description, quantity |-> raw.quantity.v,
     unit_price |-> raw.unit_price.v]

\* variant: only the quantity is converted
parse_raises_mut(raw) == raw.quantity.kind # "num"

\* int(item['quantity']) / float(item['unit_price']) raise on these
parse_raises(raw) == raw.quantity.kind # "num" \/ raw.unit_price.kind # "num"

LineItemDecision(cid, cname, conf, decision, reasons, codes, proposals) ==
    [canonical_item_id |-> cid, canonical_name |-> cname,
     match_confidence |-> conf, decision |-> decision, reasons |-> reasons,
     policy_codes |-> codes, proposals |-> proposals, judgement |-> None]

disabled_decision ==
    LineItemDecision(NoneS, <<>>, R(0, 1), "NEEDS_MORE_INFO",
        <<[text |-> "Agent pipeline disabled", length |-> 23,
           numeric |-> FALSE, sentence |-> FALSE, mentions_code |-> FALSE]>>,
        <<"AGENT_DISABLED">>, <<>>)

dict_put(d, k, v) == [x \in DOMAIN d \cup {k} |-> IF x = k THEN v ELSE d[x]]

item_ids(its) == {its[i].id : i \in 1..Len(its)}

\* variant: the response reports the configured dry-run flag
_create_disabled_response_mut(its) ==
    [status |-> "returned",
     decisions |-> [id \in item_ids(its) |-> disabled_decision],
     pipeline_stats |-> [agent_enabled |-> FALSE],
     dry_run |-> dry_run]

_create_disabled_response(its) ==
    [status |-> "returned",
     decisions |-> [id \in item_ids(its) |-> disabled_decision],
     pipeline_stats |-> [agent_enabled |-> FALSE],
     dry_run |-> TRUE]

RaisedResult(stage) == [status |-> "raised", stage |-> stage]
NoResult == [status |-> "none"]

_calculate_summary_stats_mut(decs) ==
    LET total_items == Cardinality(DOMAIN decs)
        Count(dv) == Cardinality({k \in DOMAIN decs : decs[k].decision = dv})
        matched_items ==
            Cardinality({k \in DOMAIN decs : decs[k].canonical_item_id # NoneS})
    IN [total_items |-> total_items,
        matched_items |-> matched_items,
        match_rate |-> R(matched_items, total_items),
        decisions |-> [dv \in {"ALLOW", "DENY", "NEEDS_MORE_INFO"} |-> Count(dv)],
        approval_rate |-> R(Count("ALLOW"), matched_items)]

_calculate_summary_stats(decs) ==
    LET total_items == Cardinality(DOMAIN decs)
        Count(dv) == Cardinality({k \in DOMAIN decs : decs[k].decision = dv})
        matched_items ==
            Cardinality({k \in DOMAIN decs : decs[k].canonical_item_id # NoneS})
    IN IF total_items = 0 THEN [total_items |-> 0]
       ELSE [total_items |-> total_items,
             matched_items |-> matched_items,
             match_rate |-> R(matched_items, total_items),
             decisions |-> [dv \in {"ALLOW", "DENY", "NEEDS_MORE_INFO"} |-> Count(dv)],
             approval_rate |-> R(Count("ALLOW"), total_items)]

EmptyDict == [x \in {} |-> None]

\* what call_llm hands back to a stage judge: nothing usable (no client, an
\* error, text without a score object) or text holding a JSON score object
LlmOutcomes == {"no_response", "scored"}

\* EnhancedJudgeSystem.judge_agent_output: routes on the agent type to a
\* judge that calls call_llm and parses the answer; self.enabled is not
\* consulted.  A parsed score is handed to create_judge_evaluation with a
\* trace_id keyword the imported function does not take: TypeError.
judge_agent_output(llm) == IF llm = "scored" THEN "raised" ELSE "fallback"

\* run_crew with AGENT_ENABLED false
RunCrewDisabled ==
    /\ run_pc = "idle" /\ ~enabled
    /\ result' = _create_disabled_response(items)
    /\ run_pc' = "done"
    /\ UNCHANGED <<store_vars, config_vars, cache_vars, items, vendor_id,
                   line_items, cur, match_result, price_result, item_proposals,
                   decisions, all_proposals, match_results, reqs, verdict_vars, llm_vars,
                   hist_vars>>

\* run_crew up to the item loop: parse the items, log CREW_START
RunCrewStart ==
    /\ run_pc = "idle" /\ enabled
    /\ \E store_ok \in StoreOutcomes(FALSE) :
        IF \E i \in 1..Len(items) : parse_raises(items[i])
        THEN /\ run_pc' = "raised"
             /\ result' = RaisedResult("parse")
             /\ UNCHANGED <<line_items, agent_events>>
        ELSE /\ line_items' = [i \in 1..Len(items) |-> LineItem(items[i])]
             /\ agent_events' = log_event(agent_events, dry_run, store_ok,
                                          NoneS, "CREW_START")
             /\ run_pc' = IF items = <<>> THEN "finalize" ELSE "match"
             /\ UNCHANGED result
    /\ cur' = 1
    /\ UNCHANGED <<canonical_items, synonyms, item_price_ranges, business_rules,
                   agent_proposals, agent_judgements, agent_golden_labels,
                   config_vars, cache_vars, items, vendor_id, match_result,
                   price_result, item_proposals, decisions, all_proposals,
                   match_results, reqs, verdict_vars, llm_vars, hist_vars>>

\* _process_line_item, stage 1: matching_tool.match_item
ItemMatcher ==
    /\ run_pc = "match"
    /\ \E read_ok \in StoreOutcomes(IsNone(canonical_cache) \/ IsNone(synonym_cache)),
          write_ok \in StoreOutcomes(~dry_run),
          llm \in LlmOutcomes :
        LET li == line_items[cur]
            judged == judge_agent_output(llm)
            call == [stage |-> "match", line_item_id |-> li.id,
                     agent_judge |-> judged]
        IN IF li.description.kind # "str"
           THEN \* description.strip() raises AttributeError
                /\ llm = "no_response"
                /\ run_pc' = "raised"
                /\ result' = RaisedResult("match")
                /\ stage_calls' = Append(stage_calls,
                                       [call EXCEPT !.agent_judge = "none"])
                /\ UNCHANGED <<canonical_cache, synonym_cache, agent_proposals,
                               agent_events, uuid_counter, create_calls,
                               match_result, match_results, item_proposals>>
           ELSE LET description_clean == lower(strip(li.description.v))
                    ccache == cached_or(canonical_cache, get_canonical_items(read_ok))
                    canon == Get(ccache)
                    scache == cached_or(synonym_cache, get_synonyms(read_ok))
                    syns == Get(scache)
                    branch == match_branch(description_clean, canon, syns)
                    best == fuzzy_best(description_clean, canon, syns)
                    ev1 == log_event(agent_events, dry_run, read_ok, li.id,
                                     "MATCHING_START")
                    wants == branch \in {"fuzzy", "none"} /\ fuzzy_wants_proposal(best)
                    store_ok == read_ok /\ (write_ok \/ ~wants)
                    payload == synonym_payload(description_clean, best)
                    out == IF wants
                           THEN create_proposal(agent_proposals, ev1, uuid_counter,
                                    dry_run, store_ok, "NEW_SYNONYM", payload)
                           ELSE [proposals |-> agent_proposals, events |-> ev1,
                                 uuids |-> uuid_counter, id |-> NoId]
                    res == match_item(description_clean, canon, syns, out.id)
                    stage == CASE branch = "exact" -> "MATCH_EXACT"
                               [] branch = "synonym" -> "MATCH_SYNONYM"
                               [] branch = "fuzzy" -> "MATCH_FUZZY"
                               [] OTHER -> "MATCH_NONE"
                IN /\ (wants \/ write_ok)
                   /\ canonical_cache' = ccache
                   /\ synonym_cache' = IF branch = "exact" THEN synonym_cache ELSE scache
                   /\ agent_proposals' = out.proposals
                   /\ agent_events' = log_event(out.events, dry_run, store_ok,
                                                li.id, stage)
                   /\ uuid_counter' = out.uuids
                   /\ create_calls' =
                        IF wants
                        THEN Append(create_calls,
                                 create_call(agent_proposals, ev1, dry_run, store_ok,
                                             "NEW_SYNONYM", payload, out))
                        ELSE create_calls
                   /\ match_result' = res
                   /\ match_results' = Append(match_results,
                          [description |-> li.description.v, result |-> res])
                   /\ stage_calls' = Append(stage_calls, call)
                   /\ IF judged = "raised"
                      THEN /\ run_pc' = "raised"
                           /\ result' = RaisedResult("match")
                           /\ UNCHANGED item_proposals
                      ELSE /\ item_proposals' = IF res.proposal_id # NoId
                                                THEN <<res.proposal_id>> ELSE <<>>
                           /\ run_pc' = "price"
                           /\ UNCHANGED result
    /\ UNCHANGED <<canonical_items, synonyms, item_price_ranges, business_rules,
                   agent_judgements, agent_golden_labels, config_vars,
                   price_range_cache, rules_price_ranges_cache, gold_cache,
                   items, vendor_id, line_items, cur, price_result, decisions,
                   all_proposals, reqs, verdict_vars, llm_vars, apply_writes>>

\* _process_line_item, stage 2: pricing_tool.validate_price
PriceLearner ==
    /\ run_pc = "price"
    /\ \E read_ok \in StoreOutcomes(match_result.canonical_item_id # NoneS
                                    /\ IsNone(price_range_cache)),
          write_ok \in StoreOutcomes(~dry_run),
          llm \in LlmOutcomes :
        LET li == line_items[cur]
            cid == match_result.canonical_item_id
            judged == judge_agent_output(llm)
            pcache == IF cid = NoneS THEN price_range_cache
                      ELSE cached_or(price_range_cache, get_price_ranges(read_ok))
            price_range == IF cid = NoneS THEN None
                           ELSE price_range_get(Get(pcache), cid)
            call == [stage |-> "price", line_item_id |-> li.id,
                     agent_judge |-> judged, band |-> price_range]
        IN IF price_raises(li.unit_price, price_range)
           THEN \* ZeroDivisionError in the variance computation
                /\ write_ok /\ llm = "no_response"
                /\ run_pc' = "raised"
                /\ result' = RaisedResult("price")
                /\ price_range_cache' = pcache
                /\ stage_calls' = Append(stage_calls,
                                       [call EXCEPT !.agent_judge = "none"])
                /\ UNCHANGED <<agent_proposals, agent_events, uuid_counter,
                               create_calls, price_result, item_proposals>>
           ELSE LET wants == price_wants_proposal(cid, li.unit_price, price_range)
                    store_ok == read_ok /\ (write_ok \/ ~wants)
                    payload == price_payload(cid, li.unit_price,
                                   Get(price_range).min_price,
                                   Get(price_range).max_price)
                    out == IF wants
                           THEN create_proposal(agent_proposals, agent_events,
                                    uuid_counter, dry_run, store_ok,
                                    "PRICE_RANGE_ADJUST", payload)
                           ELSE [proposals |-> agent_proposals,
                                 events |-> agent_events,
                                 uuids |-> uuid_counter, id |-> NoId]
                    res == validate_price(cid, li.unit_price, price_range, out.id)
                    stage == IF cid = NoneS THEN "PRICE_NO_CANONICAL"
                             ELSE IF IsNone(price_range) THEN "PRICE_NO_RANGE_DATA"
                             ELSE "PRICE_VALIDATION"
                IN /\ (wants \/ write_ok)
                   /\ price_range_cache' = pcache
                   /\ agent_proposals' = out.proposals
                   /\ agent_events' = log_event(out.events, dry_run, store_ok,
                                                li.id, stage)
                   /\ uuid_counter' = out.uuids
                   /\ create_calls' =
                        IF wants
                        THEN Append(create_calls,
                                 create_call(agent_proposals, agent_events, dry_run,
                                     store_ok, "PRICE_RANGE_ADJUST", payload, out))
                        ELSE create_calls
                   /\ price_result' = res
                   /\ stage_calls' = Append(stage_calls, call)
                   /\ IF judged = "raised"
                      THEN /\ run_pc' = "raised"
                           /\ result' = RaisedResult("price")
                           /\ UNCHANGED item_proposals
                      ELSE /\ item_proposals' =
                                IF res.proposal_id # NoId
                                THEN Append(item_proposals, res.proposal_id)
                                ELSE item_proposals
                           /\ run_pc' = "rules"
                           /\ UNCHANGED result
    /\ UNCHANGED <<canonical_items, synonyms, item_price_ranges, business_rules,
                   agent_judgements, agent_golden_labels, config_vars,
                   canonical_cache, synonym_cache, rules_price_ranges_cache,
                   gold_cache, items, vendor_id, line_items, cur, match_result,
                   match_results, decisions, all_proposals, reqs, verdict_vars, llm_vars,
                   apply_writes>>

\* _process_line_item, stage 3: rules_tool.apply_rules, then the decision is
\* stored under the line item's id
RuleApplier ==
    /\ run_pc = "rules"
    /\ \E store_ok \in StoreOutcomes(match_result.canonical_item_id # NoneS
                                     /\ IsNone(rules_price_ranges_cache)),
          llm \in LlmOutcomes :
        LET li == line_items[cur]
            cid == match_result.canonical_item_id
            judged == judge_agent_output(llm)
            load == cid # NoneS /\ IsNone(rules_price_ranges_cache)
            rcache == IF cid = NoneS THEN rules_price_ranges_cache
                      ELSE cached_or(rules_price_ranges_cache,
                                     get_price_ranges(store_ok))
            price_band == IF cid = NoneS THEN None
                          ELSE rules_price_band(Get(rcache), cid)
            ev1 == IF load /\ ~store_ok
                   THEN log_event(agent_events, dry_run, store_ok, NoneS, "ERROR")
                   ELSE agent_events
            rule_result == apply_rules(cid, li.unit_price, li.quantity,
                               match_result.confidence, price_result.is_valid,
                               price_band, vendor_id)
            decision == LineItemDecision(cid, match_result.canonical_name,
                            match_result.confidence, rule_result.decision,
                            rule_result.reasons, rule_result.policy_codes,
                            item_proposals)
        IN /\ rules_price_ranges_cache' = rcache
           /\ agent_events' = log_event(ev1, dry_run, store_ok, li.id,
                                        "RULES_APPLIED")
           /\ stage_calls' = Append(stage_calls,
                                 [stage |-> "rules", line_item_id |-> li.id,
                                  agent_judge |-> judged, band |-> price_band])
           /\ IF judged = "raised"
              THEN /\ run_pc' = "raised"
                   /\ result' = RaisedResult("rules")
                   /\ UNCHANGED <<decisions, all_proposals, cur>>
              ELSE /\ decisions' = dict_put(decisions, li.id, decision)
                   /\ all_proposals' = all_proposals \o item_proposals
                   /\ UNCHANGED result
                   /\ IF cur < Len(line_items)
                      THEN cur' = cur + 1 /\ run_pc' = "match"
                      ELSE cur' = 1 /\ run_pc' = "judge"
    /\ UNCHANGED <<canonical_items, synonyms, item_price_ranges, business_rules,
                   agent_proposals, agent_judgements, agent_golden_labels,
                   config_vars, canonical_cache, synonym_cache, price_range_cache,
                   gold_cache, items, vendor_id, line_items, match_result,
                   price_result, item_proposals, match_results, reqs,
                   verdict_vars, llm_vars, uuid_counter, create_calls, apply_writes>>

\* the judge loop of run_crew, one line item per step:
\* judge_runner.judge_line_item
JudgeItem ==
    /\ run_pc = "judge"
    /\ \E store_ok \in StoreOutcomes(judge_enabled) :
        LET li == line_items[cur]
            line_decision == decisions[li.id]
            cid == line_decision.canonical_item_id
            pcache == IF cid = NoneS THEN price_range_cache
                      ELSE cached_or(price_range_cache, get_price_ranges(store_ok))
            price_band == IF cid = NoneS THEN None
                          ELSE price_range_get(Get(pcache), cid)
            fingerprint == stable_fingerprint(li.description.v, vendor_id)
            gold == gold_label_fetch(fingerprint, gold_cache, agent_golden_labels,
                                     store_ok)
            scores == judge_scores(line_decision, li.unit_price, price_band, gold)
            v == verdict(scores)
            judgement == [scores |-> present_only(scores), verdict |-> v]
        IN /\ price_range_cache' = pcache
           /\ IF ~judge_enabled
              THEN UNCHANGED <<gold_cache, agent_judgements, agent_events,
                               decisions, stage_calls>>
              ELSE /\ gold_cache' = gold_cache_put(gold_cache, fingerprint, gold)
                   /\ stage_calls' = Append(stage_calls,
                          [stage |-> "judge", line_item_id |-> li.id,
                           fingerprint |-> fingerprint, price_band |-> price_band,
                           decision_data |-> line_decision, scores |-> scores,
                           returned |-> IF store_ok THEN Some(judgement) ELSE None])
                   /\ IF store_ok
                      THEN /\ agent_judgements' = Append(agent_judgements,
                                 [line_item_id |-> li.id, scores |-> scores,
                                  verdict |-> v])
                           /\ decisions' = dict_put(decisions, li.id,
                                 [line_decision EXCEPT !.judgement = Some(judgement)])
                           /\ UNCHANGED agent_events
                      ELSE \* the insert raises: JUDGE_ERROR is logged, no judgement
                           /\ agent_events' = log_event(agent_events, dry_run,
                                 store_ok, li.id, "JUDGE_ERROR")
                           /\ UNCHANGED <<agent_judgements, decisions>>
           /\ IF cur < Len(line_items)
              THEN cur' = cur + 1 /\ run_pc' = "judge"
              ELSE cur' = 1 /\ run_pc' = "finalize"
    /\ UNCHANGED <<canonical_items, synonyms, item_price_ranges, business_rules,
                   agent_proposals, agent_golden_labels, config_vars,
                   canonical_cache, synonym_cache, rules_price_ranges_cache,
                   items, vendor_id, line_items, match_result, price_result,
                   item_proposals, all_proposals, match_results, result, reqs,
                   verdict_vars, llm_vars, uuid_counter, create_calls, apply_writes>>

\* the finalize block of run_crew: summary stats, CREW_COMPLETE, the response
Finalize ==
    /\ run_pc = "finalize"
    /\ \E store_ok \in StoreOutcomes(FALSE), llm \in LlmOutcomes :
        LET judged == judge_agent_output(llm)
        IN /\ stage_calls' = Append(stage_calls,
                  [stage |-> "crew", line_item_id |-> NoneS,
                   agent_judge |-> judged])
           /\ IF judged = "raised"
              THEN /\ run_pc' = "raised"
                   /\ result' = RaisedResult("finalize")
                   /\ UNCHANGED agent_events
              ELSE /\ agent_events' = log_event(agent_events, dry_run, store_ok,
                                                NoneS, "CREW_COMPLETE")
                   /\ result' = [status |-> "returned",
                                 decisions |-> decisions,
                                 pipeline_stats |->
                                     _calculate_summary_stats(decisions),
                                 dry_run |-> dry_run]
                   /\ run_pc' = "done"
    /\ UNCHANGED <<canonical_items, synonyms, item_price_ranges, business_rules,
                   agent_proposals, agent_judgements, agent_golden_labels,
                   config_vars, cache_vars, items, vendor_id, line_items, cur,
                   match_result, price_result, item_proposals, decisions,
                   all_proposals, match_results, reqs, verdict_vars, llm_vars,
                   uuid_counter, create_calls, apply_writes>>

----------------------------------------------------------------------------
(* Proposal approval (FeedbackHandler._handle_proposal_approval), one       *)
(* Catalog Store round trip per step                                        *)
ReqIds == 1..MaxReqs

UserOf(r) == IF r = 1 THEN "user1" ELSE IF r = 2 THEN "user2" ELSE "user3"

Payload(keys, cid, syn, conf, new_range, rule_type, name) ==
    [keys |-> keys, canonical_item_id |-> cid, synonym |-> syn,
     confidence |-> conf, new_range |-> new_range, rule_type |-> rule_type,
     name |-> name]

ProposalPool ==
    { [proposal_type |-> "NEW_SYNONYM",
       payload |-> Payload({"canonical_item_id", "synonym", "confidence"},
                           "c1", <<"a", "b", "c", "b">>, R(3, 4), <<>>, NoneS, <<>>)],
      [proposal_type |-> "PRICE_RANGE_ADJUST",
       payload |-> Payload({"canonical_item_id", "old_range", "new_range"},
                           "c1", <<>>, R(0, 1), <<100, 336>>, NoneS, <<>>)],
      [proposal_type |-> "NEW_RULE",
       payload |-> Payload({"rule_type", "conditions", "actions", "description"},
                           NoneS, <<>>, R(0, 1), <<>>, "vendor_exclusion", <<>>)],
      [proposal_type |-> "NEW_CANONICAL",
       payload |-> Payload({"name", "category"},
                           NoneS, <<>>, R(0, 1), <<>>, NoneS, <<"b", "b">>)] }

ProposalRow(k, p, status) ==
    [id |-> DbId(k), proposal_type |-> p.proposal_type, payload |-> p.payload,
     status |-> status,
     approved_by |-> IF status = "APPROVED" THEN "user0" ELSE NoneS]

ProposalTables ==
    UNION { { [k \in 1..n |-> ProposalRow(k, f[k].p, f[k].st)] :
                f \in [1..n -> [p : ProposalPool, st : {"PENDING", "APPROVED"}]] } :
            n \in 1..MaxProposals }

NoApplication == [kind |-> "none", reason |-> NoneS]
Application(kind, reason) == [kind |-> kind, reason |-> reason]

ApprovalResult(kind, status, application) ==
    [kind |-> kind, current_status |-> status, application |-> application]

IdleReq ==
    [pc |-> "idle", proposal_id |-> NoId, proposal |-> None,
     result |-> ApprovalResult("none", NoneS, NoApplication),
     application |-> NoApplication, transitioned |-> FALSE, order |-> 0,
     row_at_return |-> None]

proposal_select(proposals, pid) ==
    LET Has(row) == row.id = pid
        k == FirstIdx({i \in 1..Len(proposals) : Has(proposals[i])})
    IN IF k = 0 THEN None ELSE Some(proposals[k])

\* variant: the status is not looked at
already_processed_mut(proposal) == FALSE

\* "if proposal['status'] != 'PENDING'": the request returns already_processed
already_processed(proposal) == proposal.status # "PENDING"

\* variant: the override flag is ignored
should_apply_mut(dry, allow) == ~dry

\* "should_apply = (not self.dry_run) or self.allow_approve_in_dry_run"
should_apply(dry, allow) == (~dry) \/ allow

Finish(r, res, app) ==
    reqs' = [reqs EXCEPT ![r].pc = "done", ![r].result = res,
                         ![r].application = app,
                         ![r].row_at_return =
                             proposal_select(agent_proposals', reqs[r].proposal_id)]

\* entry: select the proposal by id; not found / not PENDING return at once.
\* Requests are numbered in the order their handlers start.
Fetch(r, pid, sequential) ==
    /\ reqs[r].pc = "idle"
    /\ \A q \in ReqIds : q < r => reqs[q].pc # "idle"
    /\ sequential => \A q \in ReqIds : reqs[q].pc \in {"idle", "done"}
    /\ \E store_ok \in BOOLEAN :
        LET found == proposal_select(agent_proposals, pid)
            started == Cardinality({q \in ReqIds : reqs[q].pc # "idle"})
            base == [reqs EXCEPT ![r].proposal_id = pid, ![r].order = started + 1]
        IN IF ~store_ok
           THEN /\ reqs' = [base EXCEPT ![r].pc = "done",
                                ![r].result = ApprovalResult("error", NoneS, NoApplication),
                                ![r].row_at_return = found]
                /\ agent_events' = log_event(agent_events, dry_run, store_ok, NoneS,
                                             "PROPOSAL_APPROVAL_ERROR")
           ELSE /\ agent_events' = agent_events
                /\ IF IsNone(found)
                   THEN reqs' = [base EXCEPT ![r].pc = "done",
                            ![r].result = ApprovalResult("not_found", NoneS, NoApplication)]
                   ELSE IF already_processed(Get(found))
                   THEN reqs' = [base EXCEPT ![r].pc = "done",
                            ![r].result = ApprovalResult("already_processed",
                                              Get(found).status, NoApplication),
                            ![r].row_at_return = found]
                   ELSE reqs' = [base EXCEPT ![r].pc = "update", ![r].proposal = found]
    /\ UNCHANGED <<canonical_items, synonyms, item_price_ranges, business_rules,
                   agent_proposals, agent_judgements, agent_golden_labels,
                   config_vars, cache_vars, run_vars, verdict_vars, llm_vars, hist_vars>>

\* "update(update_data).eq('id', proposal_id)", then the should_apply gate
MarkApproved(r) ==
    /\ reqs[r].pc = "update"
    /\ \E store_ok \in BOOLEAN :
        IF ~store_ok
        THEN /\ agent_proposals' = agent_proposals
             /\ agent_events' = log_event(agent_events, dry_run, store_ok, NoneS,
                                          "PROPOSAL_APPROVAL_ERROR")
             /\ Finish(r, ApprovalResult("error", NoneS, NoApplication), NoApplication)
        ELSE /\ agent_proposals' =
                    [k \in 1..Len(agent_proposals) |->
                        IF agent_proposals[k].id = reqs[r].proposal_id
                        THEN [agent_proposals[k] EXCEPT !.status = "APPROVED",
                                                        !.approved_by = UserOf(r)]
                        ELSE agent_proposals[k]]
             /\ agent_events' = agent_events
             /\ reqs' = [reqs EXCEPT
                    ![r].transitioned = TRUE,
                    ![r].pc = IF should_apply(dry_run, allow_approve_in_dry_run)
                              THEN "apply" ELSE "log",
                    ![r].application =
                        IF should_apply(dry_run, allow_approve_in_dry_run)
                        THEN NoApplication
                        ELSE Application("skipped", "dry_run_mode")]
    /\ UNCHANGED <<canonical_items, synonyms, item_price_ranges, business_rules,
                   agent_judgements, agent_golden_labels, config_vars, cache_vars,
                   run_vars, verdict_vars, llm_vars, hist_vars>>

\* ids the store hands out for inserted canonical items
CanonIdSeq == <<"c1", "c2", "c3", "c4", "c5", "c6", "c7", "c8", "c9">>

\* keys the apply step of a proposal type reads with payload[...]
required_keys(proposal_type) ==
    CASE proposal_type = "NEW_SYNONYM" -> {"canonical_item_id", "synonym"}
      [] proposal_type = "PRICE_RANGE_ADJUST" -> {"canonical_item_id", "new_range"}
      [] proposal_type = "NEW_RULE" -> {"rule_type", "conditions", "actions"}
      [] proposal_type = "NEW_CANONICAL" -> {"name"}
      [] OTHER -> {}

SupportedTypes == {"NEW_SYNONYM", "PRICE_RANGE_ADJUST", "NEW_RULE", "NEW_CANONICAL"}

\* variant: only the synonym text is compared, against items other than c1
synonym_exists_mut(syns, payload) ==
    \E i \in 1..Len(syns) :
        /\ syns[i].canonical_item_id # "c1"
        /\ syns[i].synonym = payload.synonym

synonym_exists(syns, payload) ==
    \E i \in 1..Len(syns) :
        /\ syns[i].canonical_item_id = payload.canonical_item_id
        /\ syns[i].synonym = payload.synonym

price_rows_matching(ranges, payload) ==
    {i \in 1..Len(ranges) : ranges[i].canonical_item_id = payload.canonical_item_id}

ApplyWrite(r, table) ==
    apply_writes' = Append(apply_writes,
        [proposal_id |-> reqs[r].proposal_id, table |-> table, req |-> r])

ToLog(r, app) == reqs' = [reqs EXCEPT ![r].pc = "log", ![r].application = app]

\* _apply_proposal: dispatch on the type; the first store round trip of
\* _apply_new_synonym / _apply_price_range_adjust / _apply_new_rule /
\* _apply_new_canonical.  Any exception becomes an 'error' application.
ApplyProposal(r) ==
    /\ reqs[r].pc = "apply"
    /\ \E store_ok \in BOOLEAN :
        LET proposal == Get(reqs[r].proposal)
            ptype == proposal.proposal_type
            payload == proposal.payload
        IN IF ptype \notin SupportedTypes
           THEN /\ ToLog(r, Application("error", "unsupported"))
                /\ UNCHANGED <<canonical_items, synonyms, item_price_ranges,
                               business_rules, apply_writes>>
           ELSE IF ~(required_keys(ptype) \subseteq payload.keys) \/ ~store_ok
           THEN /\ ToLog(r, Application("error", "failed_to_apply"))
                /\ UNCHANGED <<canonical_items, synonyms, item_price_ranges,
                               business_rules, apply_writes>>
           ELSE CASE ptype = "NEW_SYNONYM" ->
                    /\ IF synonym_exists(synonyms, payload)
                       THEN ToLog(r, Application("already_exists", NoneS))
                       ELSE reqs' = [reqs EXCEPT ![r].pc = "apply_insert"]
                    /\ UNCHANGED <<canonical_items, synonyms, item_price_ranges,
                                   business_rules, apply_writes>>
                  [] ptype = "PRICE_RANGE_ADJUST" ->
                    /\ IF price_rows_matching(item_price_ranges, payload) # {}
                       THEN /\ item_price_ranges' =
                                 [i \in 1..Len(item_price_ranges) |->
                                    IF i \in price_rows_matching(item_price_ranges, payload)
                                    THEN Band(payload.canonical_item_id,
                                              payload.new_range[1], payload.new_range[2])
                                    ELSE item_price_ranges[i]]
                            /\ ApplyWrite(r, "item_price_ranges")
                            /\ ToLog(r, Application("updated", NoneS))
                       ELSE /\ reqs' = [reqs EXCEPT ![r].pc = "apply_insert"]
                            /\ UNCHANGED <<item_price_ranges, apply_writes>>
                    /\ UNCHANGED <<canonical_items, synonyms, business_rules>>
                  [] ptype = "NEW_RULE" ->
                    /\ business_rules' = Append(business_rules,
                           [rule_type |-> payload.rule_type])
                    /\ ApplyWrite(r, "business_rules")
                    /\ ToLog(r, Application("created", NoneS))
                    /\ UNCHANGED <<canonical_items, synonyms, item_price_ranges>>
                  [] OTHER ->
                    /\ canonical_items' = Append(canonical_items,
                           [id |-> CanonIdSeq[Len(canonical_items) + 1],
                            name |-> payload.name])
                    /\ ApplyWrite(r, "canonical_items")
                    /\ ToLog(r, Application("created", NoneS))
                    /\ UNCHANGED <<synonyms, item_price_ranges, business_rules>>
    /\ UNCHANGED <<agent_proposals, agent_events, agent_judgements,
                   agent_golden_labels, config_vars, cache_vars, run_vars,
                   verdict_vars, llm_vars, uuid_counter, stage_calls, create_calls>>

\* the insert that follows the existence check (NEW_SYNONYM) or the empty
\* update (PRICE_RANGE_ADJUST)
ApplyInsert(r) ==
    /\ reqs[r].pc = "apply_insert"
    /\ \E store_ok \in BOOLEAN :
        LET proposal == Get(reqs[r].proposal)
            payload == proposal.payload
        IN IF ~store_ok
           THEN /\ ToLog(r, Application("error", "failed_to_apply"))
                /\ UNCHANGED <<synonyms, item_price_ranges, apply_writes>>
           ELSE IF proposal.proposal_type = "NEW_SYNONYM"
           THEN /\ synonyms' = Append(synonyms,
                       [canonical_item_id |-> payload.canonical_item_id,
                        synonym |-> payload.synonym,
                        confidence |-> IF "confidence" \in payload.keys
                                       THEN payload.confidence ELSE R(1, 1)])
                /\ ApplyWrite(r, "synonyms")
                /\ ToLog(r, Application("created", NoneS))
                /\ UNCHANGED item_price_ranges
           ELSE /\ item_price_ranges' = Append(item_price_ranges,
                       Band(payload.canonical_item_id, payload.new_range[1],
                            payload.new_range[2]))
                /\ ApplyWrite(r, "item_price_ranges")
                /\ ToLog(r, Application("created", NoneS))
                /\ UNCHANGED synonyms
    /\ UNCHANGED <<canonical_items, business_rules, agent_proposals, agent_events,
                   agent_judgements, agent_golden_labels, config_vars, cache_vars,
                   run_vars, verdict_vars, llm_vars, uuid_counter, stage_calls, create_calls>>

\* log PROPOSAL_APPROVED and return {'approved': True, 'application': ...}
LogApproval(r) ==
    /\ reqs[r].pc = "log"
    /\ \E store_ok \in BOOLEAN :
        agent_events' = log_event(agent_events, dry_run, store_ok, NoneS,
                                  "PROPOSAL_APPROVED")
    /\ agent_proposals' = agent_proposals
    /\ Finish(r, ApprovalResult("approved", NoneS, reqs[r].application),
              reqs[r].application)
    /\ UNCHANGED <<canonical_items, synonyms, item_price_ranges, business_rules,
                   agent_judgements, agent_golden_labels, config_vars, cache_vars,
                   run_vars, verdict_vars, llm_vars, hist_vars>>

----------------------------------------------------------------------------
(* DeterministicJudge.verdict on an arbitrary score dictionary *)
ScoreKeySeq == <<"decision_correct", "policy_justified", "match_correct",
                 "price_check_correct", "reason_quality">>
ScoreKeys == {ScoreKeySeq[i] : i \in 1..MaxScoreKeys}
ScoreValues == {None, Some(R(0, 1)), Some(R(1, 2)), Some(R(59, 100)),
                Some(R(6, 10)), Some(R(2, 3)), Some(R(79, 100)), Some(R(4, 5)),
                Some(R(1, 1))}

ComputeVerdict ==
    /\ verdict_out = "none"
    /\ verdict_out' = verdict(scores_dict)
    /\ UNCHANGED <<store_vars, config_vars, cache_vars, run_vars, reqs,
                   scores_dict, llm_vars, hist_vars>>

----------------------------------------------------------------------------
(* Initial states *)
StoreInit ==
    /\ canonical_items = CanonicalTable
    /\ synonyms = SynonymTable
    /\ business_rules = <<>>
    /\ agent_events = <<>>
    /\ agent_judgements = <<>>

CachesInit ==
    /\ canonical_cache = None /\ synonym_cache = None
    /\ price_range_cache = None /\ rules_price_ranges_cache = None
    /\ gold_cache = EmptyDict

HistInit ==
    /\ uuid_counter = 0 /\ stage_calls = <<>> /\ create_calls = <<>>
    /\ apply_writes = <<>>

RunIdle(pc) ==
    /\ vendor_id = "v1" /\ run_pc = pc /\ line_items = <<>> /\ cur = 1
    /\ match_result = NoMatch
    /\ price_result = PriceValidationResult(TRUE, None, None, NoId)
    /\ item_proposals = <<>> /\ decisions = EmptyDict /\ all_proposals = <<>>
    /\ result = NoResult /\ match_results = <<>>

VerdictIdle == scores_dict = EmptyDict /\ verdict_out = "off"

\* no LLM client has been obtained
LlmIdle ==
    /\ llm_env = [api_key |-> NoneS, openai_ok |-> TRUE]
    /\ llm_client = None /\ llm_calls = <<>>

\* the pipeline: one run_crew call on a fresh CrewRunner
Init ==
    /\ StoreInit /\ CachesInit /\ HistInit /\ LlmIdle /\ RunIdle("idle") /\ VerdictIdle
    /\ item_price_ranges = PriceTable
    /\ agent_golden_labels = GoldTable
    /\ agent_proposals = <<>>
    /\ enabled \in BOOLEAN /\ dry_run \in BOOLEAN /\ judge_enabled \in BOOLEAN
    /\ allow_approve_in_dry_run = FALSE
    /\ items \in ItemSeqs
    /\ reqs = [r \in {} |-> IdleReq]

Next ==
    \/ RunCrewDisabled
    \/ RunCrewStart
    \/ ItemMatcher
    \/ PriceLearner
    \/ RuleApplier
    \/ JudgeItem
    \/ Finalize

Spec == Init /\ [][Next]_vars

\* approval requests against a store holding proposals
InitApprove ==
    /\ StoreInit /\ CachesInit /\ HistInit /\ LlmIdle /\ RunIdle("off") /\ VerdictIdle
    /\ items = <<>>
    /\ item_price_ranges \in {<<>>, <<Band("c1", 100, 200)>>}
    /\ agent_golden_labels = <<>>
    /\ agent_proposals \in ProposalTables
    /\ enabled = TRUE /\ judge_enabled = FALSE
    /\ dry_run \in BOOLEAN /\ allow_approve_in_dry_run \in BOOLEAN
    /\ reqs = [r \in ReqIds |-> IdleReq]

ProposalIds == {DbId(k) : k \in 1..(MaxProposals + 1)}

NextApprove ==
    \/ \E r \in ReqIds, pid \in ProposalIds : Fetch(r, pid, FALSE)
    \/ \E r \in ReqIds : MarkApproved(r)
    \/ \E r \in ReqIds : ApplyProposal(r)
    \/ \E r \in ReqIds : ApplyInsert(r)
    \/ \E r \in ReqIds : LogApproval(r)

SpecApprove == InitApprove /\ [][NextApprove]_vars

\* the same requests served one after the other
NextApproveSeq ==
    \/ \E r \in ReqIds, pid \in ProposalIds : Fetch(r, pid, TRUE)
    \/ \E r \in ReqIds : MarkApproved(r)
    \/ \E r \in ReqIds : ApplyProposal(r)
    \/ \E r \in ReqIds : ApplyInsert(r)
    \/ \E r \in ReqIds : LogApproval(r)

SpecApproveSeq == InitApprove /\ [][NextApproveSeq]_vars

\* verdict on drawn score dictionaries
InitVerdict ==
    /\ StoreInit /\ CachesInit /\ HistInit /\ LlmIdle /\ RunIdle("off")
    /\ items = <<>>
    /\ item_price_ranges = <<>>
    /\ agent_golden_labels = <<>>
    /\ agent_proposals = <<>>
    /\ enabled = TRUE /\ judge_enabled = TRUE /\ dry_run = TRUE
    /\ allow_approve_in_dry_run = FALSE
    /\ reqs = [r \in {} |-> IdleReq]
    /\ scores_dict \in [ScoreKeys -> ScoreValues]
    /\ verdict_out = "none"

NextVerdict == ComputeVerdict

SpecVerdict == InitVerdict /\ [][NextVerdict]_vars

\* the requests the serving process receives: one item with a description,
\* a quantity and a unit price
ServeItemSeqs ==
    {its \in ItemSeqs : /\ Len(its) = 1
                        /\ ~parse_raises(its[1])
                        /\ its[1].description.kind = "str"}

\* the server's module-level CrewRunner takes the next request: the run state
\* and the per-run history start over, the tools and their caches stay
NewRun ==
    /\ run_pc \in {"done", "raised"}
    /\ items' \in ServeItemSeqs
    /\ run_pc' = "idle" /\ line_items' = <<>> /\ cur' = 1
    /\ match_result' = NoMatch
    /\ price_result' = PriceValidationResult(TRUE, None, None, NoId)
    /\ item_proposals' = <<>> /\ decisions' = EmptyDict /\ all_proposals' = <<>>
    /\ result' = NoResult /\ match_results' = <<>>
    /\ uuid_counter' = 0 /\ stage_calls' = <<>> /\ create_calls' = <<>>
    /\ UNCHANGED <<store_vars, config_vars, cache_vars, vendor_id, reqs,
                   verdict_vars, llm_vars, apply_writes>>

\* one serving process in dry-run with approvals applied, judging off, and
\* one pending proposal in the store
InitServe ==
    /\ StoreInit /\ CachesInit /\ HistInit /\ LlmIdle /\ RunIdle("idle") /\ VerdictIdle
    /\ item_price_ranges = PriceTable
    /\ agent_golden_labels = GoldTable
    /\ agent_proposals \in {t \in ProposalTables :
                               \A k \in 1..Len(t) : t[k].status = "PENDING"}
    /\ enabled = TRUE /\ judge_enabled = FALSE
    /\ dry_run = TRUE /\ allow_approve_in_dry_run = TRUE
    /\ items \in ServeItemSeqs
    /\ reqs = [r \in ReqIds |-> IdleReq]

PipelineStep ==
    \/ RunCrewStart
    \/ ItemMatcher
    \/ PriceLearner
    \/ RuleApplier
    \/ JudgeItem
    \/ Finalize
    \/ NewRun

ApprovalStep ==
    \/ \E r \in ReqIds, pid \in ProposalIds : Fetch(r, pid, TRUE)
    \/ \E r \in ReqIds : MarkApproved(r)
    \/ \E r \in ReqIds : ApplyProposal(r)
    \/ \E r \in ReqIds : ApplyInsert(r)
    \/ \E r \in ReqIds : LogApproval(r)

NextServe == PipelineStep \/ ApprovalStep

\* the run's position moves: with one item per request every pipeline step,
\* and no approval step, is such a step
RunAdvances ==
    \E pc \in {"idle", "match", "price", "rules", "judge", "finalize", "done",
                "raised"} : pc # run_pc /\ run_pc' = pc

\* requests keep arriving and every started run is carried on
SpecServe == InitServe /\ [][NextServe]_vars /\ WF_run_pc(RunAdvances)

----------------------------------------------------------------------------
(* Price-band jobs: the nightly relearn endpoint and the seeding bootstrap. *)
(* The percentile statistics are inputs: an entry is one canonical item of  *)
(* the invoice history with its sample size and the band computed from it.  *)
JobEntry(cid, n, lo, hi) ==
    [canonical_item_id |-> cid, sample_size |-> n, lo |-> lo, hi |-> hi]

JobEntryPool ==
    { JobEntry("c1", 10, 100, 200), JobEntry("c1", 12, 120, 260),
      JobEntry("c1", 5, 60, 300), JobEntry("c2", 10, 20, 40),
      JobEntry("c3", 15, 10, 55), JobEntry("c3", 2, 10, 55) }

\* the jobs iterate a dict keyed by canonical id
JobEntrySeqs ==
    UNION { {es \in [1..n -> JobEntryPool] :
                \A i, j \in 1..n :
                    i # j => es[i].canonical_item_id # es[j].canonical_item_id} :
            n \in 1..MaxJobEntries }

abs(x) == IF x < 0 THEN 0 - x ELSE x

JobState(ranges, proposals, events, uuids, creates, processed) ==
    [ranges |-> ranges, proposals |-> proposals, events |-> events,
     uuids |-> uuids, creates |-> creates, processed |-> processed]

\* create_proposal('PRICE_RANGE_ADJUST', payload) from a job
job_propose(st, dry, store_ok, payload) ==
    LET out == create_proposal(st.proposals, st.events, st.uuids, dry, store_ok,
                               "PRICE_RANGE_ADJUST", payload)
    IN JobState(st.ranges, out.proposals, out.events, out.uuids,
                Append(st.creates,
                       create_call(st.proposals, st.events, dry, store_ok,
                                   "PRICE_RANGE_ADJUST", payload, out)),
                st.processed + 1)

\* "abs(p - current) / max(current, 0.01) > 0.05"
relearn_delta_exceeds(new, current) ==
    IF current = 0 THEN new # 0 ELSE 20 * abs(new - current) > current

\* the body of relearn's loop for one canonical item
relearn_item(e, st, dry, store_ok) ==
    LET rows == {i \in 1..Len(st.ranges) :
                    st.ranges[i].canonical_item_id = e.canonical_item_id}
        existing == st.ranges[FirstIdx(rows)]
        should_propose ==
            IF rows = {} THEN TRUE
            ELSE \/ relearn_delta_exceeds(e.lo, existing.min_price)
                 \/ relearn_delta_exceeds(e.hi, existing.max_price)
        payload == [keys |-> {"canonical_item_id", "suggested", "reason",
                              "comparison", "auto_generated"},
                    canonical_item_id |-> e.canonical_item_id,
                    suggested |-> <<e.lo, e.hi>>]
    IN IF e.sample_size < 10 THEN st
       ELSE IF should_propose THEN job_propose(st, dry, store_ok, payload)
       ELSE st

RECURSIVE relearn_loop(_, _, _, _)
relearn_loop(entries, st, dry, store_ok) ==
    IF entries = <<>> THEN st
    ELSE relearn_loop(Tail(entries), relearn_item(Head(entries), st, dry, store_ok),
                      dry, store_ok)

\* variant: the apply argument is not consulted, bands are always written
_create_price_range_mut(e, st, apply, dry, store_ok) ==
    LET rows == {i \in 1..Len(st.ranges) :
                    st.ranges[i].canonical_item_id = e.canonical_item_id}
        k == FirstIdx(rows)
        band == Band(e.canonical_item_id, e.lo, e.hi)
    IN IF rows # {}
       THEN JobState([i \in 1..Len(st.ranges) |->
                         IF i = k THEN band ELSE st.ranges[i]],
                     st.proposals, st.events, st.uuids, st.creates,
                     st.processed + 1)
       ELSE JobState(Append(st.ranges, band), st.proposals, st.events, st.uuids,
                     st.creates, st.processed + 1)

\* PriceBandBootstrapper._create_price_range inside the loop's try/except
_create_price_range(e, st, apply, dry, store_ok) ==
    LET rows == {i \in 1..Len(st.ranges) :
                    st.ranges[i].canonical_item_id = e.canonical_item_id}
        k == FirstIdx(rows)
        existing == st.ranges[k]
        band == Band(e.canonical_item_id, e.lo, e.hi)
        done == [st EXCEPT !.processed = st.processed + 1]
        adjust == [keys |-> {"canonical_item_id", "old_range", "new_range",
                             "reason", "statistics"},
                   canonical_item_id |-> e.canonical_item_id,
                   new_range |-> <<e.lo, e.hi>>]
        create == [keys |-> {"canonical_item_id", "new_range", "reason",
                             "statistics"},
                   canonical_item_id |-> e.canonical_item_id,
                   new_range |-> <<e.lo, e.hi>>]
    IN IF rows # {}
       THEN IF existing.min_price = 0 \/ existing.max_price = 0
            THEN st   \* ZeroDivisionError, counted as an error
            ELSE IF \/ 5 * abs(e.lo - existing.min_price) > existing.min_price
                    \/ 5 * abs(e.hi - existing.max_price) > existing.max_price
            THEN IF apply
                 THEN IF store_ok
                      THEN [done EXCEPT !.ranges =
                               [i \in 1..Len(st.ranges) |->
                                   IF i = k THEN band ELSE st.ranges[i]]]
                      ELSE st
                 ELSE job_propose(st, dry, store_ok, adjust)
            ELSE done
       ELSE IF apply
            THEN IF store_ok THEN [done EXCEPT !.ranges = Append(st.ranges, band)]
                 ELSE st
            ELSE job_propose(st, dry, store_ok, create)

\* the loop of bootstrap_price_ranges; limit 0 stands for no limit
RECURSIVE bootstrap_loop(_, _, _, _, _, _)
bootstrap_loop(entries, st, apply, limit, dry, store_ok) ==
    IF entries = <<>> THEN st
    ELSE IF limit # 0 /\ st.processed >= limit THEN st
    ELSE IF Head(entries).sample_size < 3
    THEN bootstrap_loop(Tail(entries), st, apply, limit, dry, store_ok)
    ELSE bootstrap_loop(Tail(entries),
             _create_price_range(Head(entries), st, apply, dry, store_ok),
             apply, limit, dry, store_ok)

JobCall(stage, apply, entries, st) ==
    [stage |-> stage, apply |-> apply, entries |-> entries,
     ranges_before |-> item_price_ranges, ranges_after |-> st.ranges,
     creates |-> st.creates]

JobFrame ==
    UNCHANGED <<canonical_items, synonyms, business_rules, agent_judgements,
                agent_golden_labels, config_vars, cache_vars, run_vars, reqs,
                verdict_vars, llm_vars, apply_writes>>

\* GET /api/relearn
RelearnJob ==
    /\ Len(stage_calls) < MaxJobs
    /\ \E entries \in JobEntrySeqs, store_ok \in BOOLEAN,
          allow_auto_adjust \in BOOLEAN :
        LET ev0 == log_event(agent_events, dry_run, store_ok, NoneS,
                             "relearn_start")
            st == relearn_loop(entries,
                      JobState(item_price_ranges, agent_proposals, ev0,
                               uuid_counter, <<>>, 0),
                      dry_run, store_ok)
        IN /\ item_price_ranges' = st.ranges
           /\ agent_proposals' = st.proposals
           /\ agent_events' = log_event(st.events, dry_run, store_ok, NoneS,
                                        "relearn_complete")
           /\ uuid_counter' = st.uuids
           /\ create_calls' = create_calls \o st.creates
           /\ stage_calls' = Append(stage_calls,
                  JobCall("relearn", allow_auto_adjust, entries, st))
    /\ JobFrame

\* PriceBandBootstrapper.bootstrap_price_ranges(apply, limit)
BootstrapJob ==
    /\ Len(stage_calls) < MaxJobs
    /\ \E entries \in JobEntrySeqs, store_ok \in BOOLEAN, apply \in BOOLEAN,
          limit \in {0, 1} :
        LET ev0 == log_event(agent_events, dry_run, store_ok, NoneS,
                             "seed_price_bands")
            st == bootstrap_loop(entries,
                      JobState(item_price_ranges, agent_proposals, ev0,
                               uuid_counter, <<>>, 0),
                      apply, limit, dry_run, store_ok)
        IN /\ item_price_ranges' = st.ranges
           /\ agent_proposals' = st.proposals
           /\ agent_events' = st.events
           /\ uuid_counter' = st.uuids
           /\ create_calls' = create_calls \o st.creates
           /\ stage_calls' = Append(stage_calls,
                  JobCall("bootstrap", apply, entries, st))
    /\ JobFrame

InitJobs ==
    /\ StoreInit /\ CachesInit /\ HistInit /\ LlmIdle /\ RunIdle("off") /\ VerdictIdle
    /\ items = <<>>
    /\ item_price_ranges = PriceTable
    /\ agent_golden_labels = <<>>
    /\ agent_proposals = <<>>
    /\ enabled = TRUE /\ judge_enabled = FALSE
    /\ dry_run \in BOOLEAN /\ allow_approve_in_dry_run = FALSE
    /\ reqs = [r \in {} |-> IdleReq]

NextJobs == RelearnJob \/ BootstrapJob

SpecJobs == InitJobs /\ [][NextJobs]_vars

----------------------------------------------------------------------------
(* The OpenRouter LLM client (llm/client.py): the global instance handed    *)
(* out by get_llm and the calls made on it.                                 *)
MaxLlmCalls == 3

\* values of OPENROUTER_API_KEY: unset, set to the empty string, set
ApiKeys == {NoneS, "", "sk-or-v1-test-key"}

\* OpenRouterClient.__init__
OpenRouterClient(env) == [api_key |-> env.api_key, _client |-> NoneS, _initialized |-> FALSE]

\* _initialize_client: the OpenAI constructor is called only with a key
\* that is truthy; a constructor that raises leaves _client None
_initialize_client(c, env) == [c EXCEPT !._initialized = TRUE, !._client = IF c.api_key \in {NoneS, ""} THEN NoneS ELSE IF env.openai_ok THEN "OpenAI" ELSE NoneS]

\* number of OpenAI(...) constructor calls _initialize_client makes
openai_constructions(c) == IF c.api_key \in {NoneS, ""} THEN 0 ELSE 1

\* _get_client up to its raise: initializes on first use
_get_client(c, env) == IF c._initialized THEN c ELSE _initialize_client(c, env)

\* is_available: reads api_key and _client, initializes nothing
is_available(c) == c.api_key # NoneS /\ c._client # NoneS

LlmCall(op, before, after, answer) == [op |-> op, result |-> answer, initialized_before |-> before._initialized, constructed |-> IF before._initialized = after._initialized THEN 0 ELSE openai_constructions(before)]

\* get_llm: creates the global instance on first use
GetLlm ==
    /\ Len(llm_calls) < MaxLlmCalls
    /\ llm_client' = IF llm_client = None
                     THEN Some(OpenRouterClient(llm_env)) ELSE llm_client
    /\ llm_calls' = Append(llm_calls,
                        [op |-> "get_llm", result |-> "client",
                         initialized_before |-> FALSE, constructed |-> 0])
    /\ UNCHANGED <<store_vars, config_vars, cache_vars, run_vars, reqs,
                   verdict_vars, llm_env, hist_vars>>

\* client.is_available()
IsAvailable ==
    /\ Len(llm_calls) < MaxLlmCalls /\ llm_client # None
    /\ LET c == Get(llm_client)
       IN llm_calls' = Append(llm_calls,
              LlmCall("is_available", c, c,
                      IF is_available(c) THEN "true" ELSE "false"))
    /\ UNCHANGED <<store_vars, config_vars, cache_vars, run_vars, reqs,
                   verdict_vars, llm_env, llm_client, hist_vars>>

\* client.chat_completion(messages): _get_client, then the API call, whose
\* exception is re-raised
ChatCompletion ==
    /\ Len(llm_calls) < MaxLlmCalls /\ llm_client # None
    /\ \E api_ok \in BOOLEAN :
        LET c == Get(llm_client)
            c2 == _get_client(c, llm_env)
        IN /\ (c2._client = NoneS => api_ok)
           /\ llm_client' = Some(c2)
           /\ llm_calls' = Append(llm_calls,
                  LlmCall("chat_completion", c, c2,
                      IF c2._client = NoneS
                      THEN "RuntimeError: OpenRouter client not available"
                      ELSE IF api_ok THEN "response" ELSE "api error"))
    /\ UNCHANGED <<store_vars, config_vars, cache_vars, run_vars, reqs,
                   verdict_vars, llm_env, hist_vars>>

\* health_check(): get_llm() and a report with client_available
HealthCheck ==
    /\ Len(llm_calls) < MaxLlmCalls
    /\ LET c == IF llm_client = None THEN OpenRouterClient(llm_env)
                ELSE Get(llm_client)
       IN /\ llm_client' = Some(c)
          /\ llm_calls' = Append(llm_calls,
                 LlmCall("health_check", c, c,
                         IF is_available(c) THEN "true" ELSE "false"))
    /\ UNCHANGED <<store_vars, config_vars, cache_vars, run_vars, reqs,
                   verdict_vars, llm_env, hist_vars>>

InitLlm ==
    /\ StoreInit /\ CachesInit /\ HistInit /\ RunIdle("off") /\ VerdictIdle
    /\ items = <<>>
    /\ item_price_ranges = <<>>
    /\ agent_golden_labels = <<>>
    /\ agent_proposals = <<>>
    /\ enabled = TRUE /\ judge_enabled = TRUE /\ dry_run = TRUE
    /\ allow_approve_in_dry_run = FALSE
    /\ reqs = [r \in {} |-> IdleReq]
    /\ llm_env \in [api_key : ApiKeys, openai_ok : BOOLEAN]
    /\ llm_client = None /\ llm_calls = <<>>

NextLlm ==
    \/ GetLlm
    \/ IsAvailable
    \/ ChatCompletion
    \/ HealthCheck

SpecLlm == InitLlm /\ [][NextLlm]_vars

----------------------------------------------------------------------------
(* RulesTool.apply_rules called directly, on drawn arguments and price      *)
(* range tables                                                             *)
MaxRuleCalls == 1

\* price range tables: the pipeline's, one whose c1 band is inverted
\* (min_price above max_price), an empty one
RuleBandTables == {PriceTable, <<Band("c1", 400, 100), Band("c3", 0, 50)>>, <<>>}
RuleCids == {NoneS, "c1", "c2", "c3"}
RulePrices == {0, 20, 40, 100, 160, 240, 320, 450}
RuleQuantities == {1, 500}
RuleConfidences == {R(3, 5), R(1, 1)}

\* apply_rules(canonical_item_id, unit_price, quantity, ...) on the rules
\* tool: the price band comes from the tool's own cache, loaded on first use
ApplyRules ==
    /\ Len(stage_calls) < MaxRuleCalls
    /\ \E cid \in RuleCids, unit_price \in RulePrices, quantity \in RuleQuantities :
       \E match_confidence \in RuleConfidences, price_is_valid \in BOOLEAN,
          store_ok \in StoreOutcomes(cid # NoneS /\ IsNone(rules_price_ranges_cache)) :
        LET load == cid # NoneS /\ IsNone(rules_price_ranges_cache)
            rcache == IF cid = NoneS THEN rules_price_ranges_cache
                      ELSE cached_or(rules_price_ranges_cache,
                                     get_price_ranges(store_ok))
            price_band == IF cid = NoneS THEN None
                          ELSE rules_price_band(Get(rcache), cid)
            ev1 == IF load /\ ~store_ok
                   THEN log_event(agent_events, dry_run, store_ok, NoneS, "ERROR")
                   ELSE agent_events
            rule_result == apply_rules(cid, unit_price, quantity, match_confidence,
                                       price_is_valid, price_band, vendor_id)
        IN /\ rules_price_ranges_cache' = rcache
           /\ agent_events' = log_event(ev1, dry_run, store_ok, "i1",
                                        "RULES_APPLIED")
           /\ stage_calls' = Append(stage_calls,
                  [stage |-> "apply_rules", canonical_item_id |-> cid,
                   unit_price |-> unit_price, quantity |-> quantity,
                   vendor_id |-> vendor_id, price_band |-> price_band,
                   match_confidence |-> match_confidence,
                   price_is_valid |-> price_is_valid,
                   result |-> rule_result])
    /\ UNCHANGED <<canonical_items, synonyms, item_price_ranges, business_rules,
                   agent_proposals, agent_judgements, agent_golden_labels,
                   config_vars, canonical_cache, synonym_cache, price_range_cache,
                   gold_cache, run_vars, reqs, verdict_vars, llm_vars,
                   uuid_counter, create_calls, apply_writes>>

InitRules ==
    /\ StoreInit /\ CachesInit /\ HistInit /\ LlmIdle /\ RunIdle("off") /\ VerdictIdle
    /\ items = <<>>
    /\ item_price_ranges \in RuleBandTables
    /\ agent_golden_labels = <<>>
    /\ agent_proposals = <<>>
    /\ enabled = TRUE /\ judge_enabled = FALSE /\ dry_run \in BOOLEAN
    /\ allow_approve_in_dry_run = FALSE
    /\ reqs = [r \in {} |-> IdleReq]

NextRules == ApplyRules

SpecRules == InitRules /\ [][NextRules]_vars

----------------------------------------------------------------------------
(* MatchingTool.match_item called directly, on drawn descriptions and       *)
(* catalogs                                                                 *)
MaxMatchCalls == 1

CanonRow(id, name) == [id |-> id, name |-> name]
SynRow(cid, synonym, conf) == [canonical_item_id |-> cid, synonym |-> synonym, confidence |-> conf]

\* catalogs: the pipeline's; one where a synonym repeats a canonical name,
\* two canonical names and two synonyms are equally close to "a", and one
\* synonym points to no canonical item; one with a five-letter name
MatchCatalogs ==
    { [canon |-> CanonicalTable, syns |-> SynonymTable],
      [canon |-> <<CanonRow("c1", <<"A", "b">>), CanonRow("c2", <<"a", "c">>)>>,
       syns |-> <<SynRow("c2", <<"a", "b">>, R(1, 2)),
                  SynRow("c9", <<"a", "e">>, R(1, 1)),
                  SynRow("c2", <<"A", "d", " ">>, R(7, 10)),
                  SynRow("c1", <<"a", "d">>, R(4, 5))>>],
      [canon |-> <<CanonRow("c1", <<"a", "b", "c", "d", "e">>)>>,
       syns |-> <<SynRow("c1", <<"x", "y", "z">>, R(9, 10))>>] }

MatchDescriptions ==
    { <<>>, <<" ">>, <<" ", " ">>, <<"a">>, <<"A", "B">>, <<" ", "a", "d">>,
      <<"a", "e">>, <<"a", "d", "x">>, <<"b">>, <<"a", "b", "c", "b">>,
      <<"a", "b", "c", "x", "y">>, <<"a", "b", "x", "y", "z">>,
      <<"x", "y", "w">>, <<"q">>, <<"a", "b", "c">> }

\* match_item(description, line_item_id) on the matching tool
MatchItem ==
    /\ Len(stage_calls) < MaxMatchCalls
    /\ \E description \in MatchDescriptions,
          read_ok \in StoreOutcomes(IsNone(canonical_cache) \/ IsNone(synonym_cache)),
          write_ok \in StoreOutcomes(~dry_run) :
        LET description_clean == lower(strip(description))
            ccache == cached_or(canonical_cache, get_canonical_items(read_ok))
            canon == Get(ccache)
            scache == cached_or(synonym_cache, get_synonyms(read_ok))
            syns == Get(scache)
            branch == match_branch(description_clean, canon, syns)
            best == fuzzy_best(description_clean, canon, syns)
            ev1 == log_event(agent_events, dry_run, read_ok, "i1", "MATCHING_START")
            wants == branch \in {"fuzzy", "none"} /\ fuzzy_wants_proposal(best)
            store_ok == read_ok /\ (write_ok \/ ~wants)
            payload == synonym_payload(description_clean, best)
            out == IF wants
                   THEN create_proposal(agent_proposals, ev1, uuid_counter,
                            dry_run, store_ok, "NEW_SYNONYM", payload)
                   ELSE [proposals |-> agent_proposals, events |-> ev1,
                         uuids |-> uuid_counter, id |-> NoId]
            res == match_item(description_clean, canon, syns, out.id)
            stage == CASE branch = "exact" -> "MATCH_EXACT"
                       [] branch = "synonym" -> "MATCH_SYNONYM"
                       [] branch = "fuzzy" -> "MATCH_FUZZY"
                       [] OTHER -> "MATCH_NONE"
        IN /\ (wants \/ write_ok)
           /\ canonical_cache' = ccache
           /\ synonym_cache' = IF branch = "exact" THEN synonym_cache ELSE scache
           /\ agent_proposals' = out.proposals
           /\ agent_events' = log_event(out.events, dry_run, store_ok, "i1", stage)
           /\ uuid_counter' = out.uuids
           /\ create_calls' =
                IF wants
                THEN Append(create_calls,
                         create_call(agent_proposals, ev1, dry_run, store_ok,
                                     "NEW_SYNONYM", payload, out))
                ELSE create_calls
           /\ match_results' = Append(match_results,
                  [description |-> description, result |-> res])
           /\ stage_calls' = Append(stage_calls,
                  [stage |-> "match_item", description |-> description,
                   canon |-> canon, syns |-> syns, result |-> res,
                   proposals_created |-> Len(out.proposals) - Len(agent_proposals),
                   create_proposal_calls |-> IF wants THEN 1 ELSE 0])
    /\ UNCHANGED <<canonical_items, synonyms, item_price_ranges, business_rules,
                   agent_judgements, agent_golden_labels, config_vars,
                   price_range_cache, rules_price_ranges_cache, gold_cache,
                   items, vendor_id, run_pc, line_items, cur, match_result,
                   price_result, item_proposals, decisions, all_proposals,
                   result, reqs, verdict_vars, llm_vars, apply_writes>>

InitMatch ==
    /\ CachesInit /\ HistInit /\ LlmIdle /\ RunIdle("off") /\ VerdictIdle
    /\ \E cat \in MatchCatalogs :
          canonical_items = cat.canon /\ synonyms = cat.syns
    /\ business_rules = <<>> /\ agent_events = <<>> /\ agent_judgements = <<>>
    /\ items = <<>>
    /\ item_price_ranges = <<>>
    /\ agent_golden_labels = <<>>
    /\ agent_proposals = <<>>
    /\ enabled = TRUE /\ judge_enabled = FALSE /\ dry_run \in BOOLEAN
    /\ allow_approve_in_dry_run = FALSE
    /\ reqs = [r \in {} |-> IdleReq]

NextMatch == MatchItem

SpecMatch == InitMatch /\ [][NextMatch]_vars

----------------------------------------------------------------------------
(* Direct calls of the price validator: PricingTool.validate_price *)
\* calls per behaviour
MaxPriceCalls == 2

\* price range tables: the pipeline's, and one whose c1 band is inverted
PriceBandTables == {PriceTable, <<Band("c1", 400, 100), Band("c3", 0, 50)>>}
PriceCids == {NoneS, "c1", "c2", "c3"}
PricePrices == {0, 40, 80, 100, 200, 240, 260}

\* validate_price(canonical_item_id, unit_price, line_item_id) on the pricing
\* tool: the band comes from the tool's own cache, loaded on first use
ValidatePrice ==
    /\ Len(stage_calls) < MaxPriceCalls
    /\ \E cid \in PriceCids, unit_price \in PricePrices :
       \E read_ok \in StoreOutcomes(cid # NoneS /\ IsNone(price_range_cache)),
          write_ok \in StoreOutcomes(~dry_run) :
        LET pcache == IF cid = NoneS THEN price_range_cache
                      ELSE cached_or(price_range_cache, get_price_ranges(read_ok))
            price_range == IF cid = NoneS THEN None
                           ELSE price_range_get(Get(pcache), cid)
            call == [stage |-> "validate_price", canonical_item_id |-> cid,
                     unit_price |-> unit_price, price_band |-> price_range]
        IN IF price_raises(unit_price, price_range)
           THEN \* ZeroDivisionError in the variance computation
                /\ write_ok
                /\ price_range_cache' = pcache
                /\ stage_calls' = Append(stage_calls,
                       [raised |-> TRUE, result |-> NoneS,
                        create_proposal_calls |-> 0,
                        proposals_created |-> 0] @@ call)
                /\ UNCHANGED <<agent_proposals, agent_events, uuid_counter,
                               create_calls>>
           ELSE LET wants == price_wants_proposal(cid, unit_price, price_range)
                    store_ok == read_ok /\ (write_ok \/ ~wants)
                    payload == price_payload(cid, unit_price,
                                   Get(price_range).min_price,
                                   Get(price_range).max_price)
                    out == IF wants
                           THEN create_proposal(agent_proposals, agent_events,
                                    uuid_counter, dry_run, store_ok,
                                    "PRICE_RANGE_ADJUST", payload)
                           ELSE [proposals |-> agent_proposals,
                                 events |-> agent_events,
                                 uuids |-> uuid_counter, id |-> NoId]
                    res == validate_price(cid, unit_price, price_range, out.id)
                    stage == IF cid = NoneS THEN "PRICE_NO_CANONICAL"
                             ELSE IF IsNone(price_range) THEN "PRICE_NO_RANGE_DATA"
                             ELSE "PRICE_VALIDATION"
                IN /\ (wants \/ write_ok)
                   /\ price_range_cache' = pcache
                   /\ agent_proposals' = out.proposals
                   /\ agent_events' = log_event(out.events, dry_run, store_ok,
                                                "i1", stage)
                   /\ uuid_counter' = out.uuids
                   /\ create_calls' =
                        IF wants
                        THEN Append(create_calls,
                                 create_call(agent_proposals, agent_events, dry_run,
                                     store_ok, "PRICE_RANGE_ADJUST", payload, out))
                        ELSE create_calls
                   /\ stage_calls' = Append(stage_calls,
                          [raised |-> FALSE, result |-> res,
                           create_proposal_calls |-> IF wants THEN 1 ELSE 0,
                           proposals_created |->
                               Len(out.proposals) - Len(agent_proposals)] @@ call)
    /\ UNCHANGED <<canonical_items, synonyms, item_price_ranges, business_rules,
                   agent_judgements, agent_golden_labels, config_vars,
                   canonical_cache, synonym_cache, rules_price_ranges_cache,
                   gold_cache, run_vars, reqs, verdict_vars, llm_vars,
                   apply_writes>>

InitPrice ==
    /\ StoreInit /\ CachesInit /\ HistInit /\ LlmIdle /\ RunIdle("off") /\ VerdictIdle
    /\ items = <<>>
    /\ item_price_ranges \in PriceBandTables
    /\ agent_golden_labels = <<>>
    /\ agent_proposals = <<>>
    /\ enabled = TRUE /\ judge_enabled = FALSE /\ dry_run \in BOOLEAN
    /\ allow_approve_in_dry_run = FALSE
    /\ reqs = [r \in {} |-> IdleReq]

NextPrice == ValidatePrice

SpecPrice == InitPrice /\ [][NextPrice]_vars

----------------------------------------------------------------------------
(* DeterministicJudge.score_price_check called directly, next to the Rule   *)
(* Engine's answer for the same price and band                              *)
MaxScoreCalls == 1

\* bands: regular, inverted, min_price 0, both bounds 0, none
ScoreBands ==
    {Some(Band("c1", 100, 200)), Some(Band("c1", 400, 100)),
     Some(Band("c1", 0, 50)), Some(Band("c1", 0, 0)), None}
ScoreDecisions == {"ALLOW", "DENY", "NEEDS_MORE_INFO"}
ScorePolicyCodes ==
    { <<>>, <<"PRICE_EXCEEDS_MAX_150">>, <<"PRICE_BELOW_MIN_50">>,
      <<"PRICE_EXCEEDS_MAX_150", "PRICE_BELOW_MIN_50">>, <<"NO_PRICE_BAND">>,
      <<"NO_PRICE_BAND", "PRICE_BELOW_MIN_50">> }

\* score_price_check(unit_price, price_band, decision, policy_codes); the
\* record keeps what apply_rules answers for the same price and band
ScorePriceCheck ==
    /\ Len(stage_calls) < MaxScoreCalls
    /\ \E unit_price \in RulePrices, price_band \in ScoreBands,
          decision \in ScoreDecisions, policy_codes \in ScorePolicyCodes :
          stage_calls' = Append(stage_calls,
              [stage |-> "score_price_check", unit_price |-> unit_price,
               price_band |-> price_band, decision |-> decision,
               policy_codes |-> policy_codes,
               rule_result |-> apply_rules("c1", unit_price, 1, R(1, 1), TRUE,
                                           price_band, vendor_id),
               score |-> score_price_check(unit_price, price_band, decision,
                                           policy_codes)])
    /\ UNCHANGED <<store_vars, config_vars, cache_vars, run_vars, reqs,
                   verdict_vars, llm_vars, uuid_counter, create_calls,
                   apply_writes>>

InitScore ==
    /\ StoreInit /\ CachesInit /\ HistInit /\ LlmIdle /\ RunIdle("off") /\ VerdictIdle
    /\ items = <<>>
    /\ item_price_ranges = PriceTable
    /\ agent_golden_labels = <<>>
    /\ agent_proposals = <<>>
    /\ enabled = TRUE /\ judge_enabled = TRUE /\ dry_run = FALSE
    /\ allow_approve_in_dry_run = FALSE
    /\ reqs = [r \in {} |-> IdleReq]

NextScore == ScorePriceCheck

SpecScore == InitScore /\ [][NextScore]_vars

----------------------------------------------------------------------------
(* FeedbackHandler._apply_proposal called on approved proposals, one call   *)
(* after the other                                                          *)
\* keyed proposals: a synonym the table holds, a new one, a range for an
\* item with a range (c1) and for one without (c3)
ApplyPool ==
    { [proposal_type |-> "NEW_SYNONYM",
       payload |-> Payload({"canonical_item_id", "synonym", "confidence"},
                           "c1", <<"a", "b", " ", "a">>, R(4, 5), <<>>, NoneS, <<>>)],
      [proposal_type |-> "NEW_SYNONYM",
       payload |-> Payload({"canonical_item_id", "synonym", "confidence"},
                           "c1", <<"a", "b", "c", "b">>, R(3, 4), <<>>, NoneS, <<>>)],
      [proposal_type |-> "PRICE_RANGE_ADJUST",
       payload |-> Payload({"canonical_item_id", "old_range", "new_range"},
                           "c1", <<>>, R(0, 1), <<100, 336>>, NoneS, <<>>)],
      [proposal_type |-> "PRICE_RANGE_ADJUST",
       payload |-> Payload({"canonical_item_id", "old_range", "new_range"},
                           "c3", <<>>, R(0, 1), <<10, 50>>, NoneS, <<>>)] }

\* call r starts when the calls before it have returned
ApplyTurn(r) == \A q \in ReqIds : q < r => reqs[q].pc = "log"

InitApply ==
    /\ StoreInit /\ CachesInit /\ HistInit /\ LlmIdle /\ RunIdle("off") /\ VerdictIdle
    /\ items = <<>>
    /\ item_price_ranges = PriceTable
    /\ agent_golden_labels = <<>>
    /\ enabled = TRUE /\ judge_enabled = FALSE
    /\ dry_run = FALSE /\ allow_approve_in_dry_run = FALSE
    /\ \E f \in [ReqIds -> ApplyPool] :
          /\ agent_proposals = [k \in ReqIds |-> ProposalRow(k, f[k], "APPROVED")]
          /\ reqs = [r \in ReqIds |->
                       [IdleReq EXCEPT !.pc = "apply", !.proposal_id = DbId(r),
                            !.proposal = Some(ProposalRow(r, f[r], "APPROVED"))]]

NextApply ==
    \/ \E r \in ReqIds : ApplyTurn(r) /\ ApplyProposal(r)
    \/ \E r \in ReqIds : ApplyTurn(r) /\ ApplyInsert(r)

SpecApply == InitApply /\ [][NextApply]_vars

----------------------------------------------------------------------------
(* Properties *)

\* C1: in every decision the pipeline holds or returns (rule engine results
\* of an enabled run, the disabled response), policy_codes is empty if and
\* only if the decision is ALLOW.
C1_PolicyCodesIffAllow ==
    /\ \A id \in DOMAIN decisions :
          (decisions[id].policy_codes = <<>>) <=> (decisions[id].decision = "ALLOW")
    /\ result.status = "returned" =>
          \A id \in DOMAIN result.decisions :
             (result.decisions[id].policy_codes = <<>>)
                <=> (result.decisions[id].decision = "ALLOW")

\* a returned enabled run holding an ALLOW decision without codes and a
\* non-ALLOW decision with codes
C1_Witness ==
    /\ enabled /\ result.status = "returned"
    /\ \E a, b \in DOMAIN result.decisions :
          /\ result.decisions[a].decision = "ALLOW"
          /\ result.decisions[a].policy_codes = <<>>
          /\ result.decisions[b].decision = "DENY"
          /\ result.decisions[b].policy_codes # <<>>

\* C2: two approvals of the same proposal one after the other, the first
\* answered 'approved': the proposal is APPROVED, the second is answered
\* already_processed with current_status APPROVED (unless its select fails),
\* leaves the proposal row as the first left it, writes nothing, and the
\* effect has been written once if the first reported created/updated and
\* not at all otherwise.
C2_SecondApprovalNoOp ==
    \A r1, r2 \in ReqIds :
        ( /\ r1 # r2
          /\ reqs[r1].pc = "done" /\ reqs[r2].pc = "done"
          /\ reqs[r1].proposal_id = reqs[r2].proposal_id
          /\ reqs[r1].order < reqs[r2].order
          /\ reqs[r1].result.kind = "approved"
          /\ reqs[r2].result.kind # "error" )
        => /\ reqs[r2].result.kind = "already_processed"
           /\ reqs[r2].result.current_status = "APPROVED"
           /\ ~reqs[r2].transitioned
           /\ reqs[r2].row_at_return = reqs[r1].row_at_return
           /\ Get(reqs[r2].row_at_return).status = "APPROVED"
           /\ \A i \in 1..Len(apply_writes) : apply_writes[i].req # r2
           /\ Cardinality({i \in 1..Len(apply_writes) :
                  apply_writes[i].proposal_id = reqs[r1].proposal_id})
              = IF reqs[r1].result.application.kind \in {"created", "updated"}
                THEN 1 ELSE 0

\* a NEW_SYNONYM proposal approved and applied by the first request, the
\* second answered already_processed, one synonym added
C2_Witness ==
    \E r1, r2 \in ReqIds :
        /\ reqs[r1].pc = "done" /\ reqs[r2].pc = "done"
        /\ reqs[r1].proposal_id = reqs[r2].proposal_id
        /\ reqs[r1].order < reqs[r2].order
        /\ reqs[r1].result.kind = "approved"
        /\ reqs[r1].result.application.kind = "created"
        /\ Get(reqs[r1].proposal).proposal_type = "NEW_SYNONYM"
        /\ reqs[r2].result.kind = "already_processed"
        /\ Len(synonyms) = Len(SynonymTable) + 1

\* C3: for each proposal at most one request performs the PENDING->APPROVED
\* transition and its effect is written to the Catalog Store at most once.
C3_AtMostOneApproval ==
    \A pid \in ProposalIds :
        /\ Cardinality({r \in ReqIds : reqs[r].transitioned
                                       /\ reqs[r].proposal_id = pid}) <= 1
        /\ Cardinality({i \in 1..Len(apply_writes) :
                           apply_writes[i].proposal_id = pid}) <= 1

\* C4: when a stage of one line item fails, run still returns, with a
\* decision for every input item; the failed item (the one at cur) is
\* NEEDS_MORE_INFO with a policy code.
C4_StageFailureIsolated ==
    (run_pc = "raised" /\ result.stage \in {"match", "price", "rules"})
    => /\ result.status = "returned"
       /\ \A i \in 1..Len(items) : items[i].id \in DOMAIN result.decisions
       /\ result.decisions[line_items[cur].id].decision = "NEEDS_MORE_INFO"
       /\ result.decisions[line_items[cur].id].policy_codes # <<>>

C6_DisabledShortCircuit ==
    (~enabled) =>
       /\ stage_calls = <<>> /\ create_calls = <<>> /\ uuid_counter = 0
       /\ agent_events = <<>> /\ agent_proposals = <<>> /\ agent_judgements = <<>>
       /\ canonical_cache = None /\ synonym_cache = None
       /\ price_range_cache = None /\ rules_price_ranges_cache = None
       /\ run_pc \in {"idle", "done"}
       /\ run_pc = "done" =>
            /\ result.status = "returned"
            /\ result.dry_run = TRUE
            /\ result.pipeline_stats = [agent_enabled |-> FALSE]
            /\ DOMAIN result.decisions = {items[i].id : i \in 1..Len(items)}
            /\ \A id \in DOMAIN result.decisions :
                  /\ result.decisions[id].decision = "NEEDS_MORE_INFO"
                  /\ Len(result.decisions[id].reasons) = 1
                  /\ result.decisions[id].reasons[1].text = "Agent pipeline disabled"
                  /\ result.decisions[id].policy_codes = <<"AGENT_DISABLED">>
                  /\ result.decisions[id].proposals = <<>>
                  /\ result.decisions[id].canonical_item_id = NoneS

\* a disabled run over two items, configured with dry-run off, has returned
C6_Witness ==
    /\ ~enabled /\ ~dry_run /\ run_pc = "done"
    /\ Cardinality(DOMAIN result.decisions) = 2

\* C7: a request answered 'approved' leaves the proposal APPROVED; its apply
\* step is skipped exactly when dry_run holds without
\* allow_approve_in_dry_run, then reported with reason dry_run_mode; and in
\* that configuration no step changes canonical_items, synonyms,
\* item_price_ranges or business_rules.
C7_ApplyGate ==
    /\ [](\A r \in ReqIds :
            /\ reqs[r].transitioned =>
                 Get(proposal_select(agent_proposals, reqs[r].proposal_id)).status
                    = "APPROVED"
            /\ (reqs[r].pc = "done" /\ reqs[r].result.kind = "approved") =>
                 /\ reqs[r].transitioned
                 /\ (reqs[r].result.application.kind = "skipped")
                       <=> (dry_run /\ ~allow_approve_in_dry_run)
                 /\ reqs[r].result.application.kind = "skipped" =>
                       /\ reqs[r].result.application.reason = "dry_run_mode"
                       /\ \A i \in 1..Len(apply_writes) : apply_writes[i].req # r)
    /\ [][(dry_run /\ ~allow_approve_in_dry_run) =>
             UNCHANGED <<canonical_items, synonyms, item_price_ranges,
                         business_rules>>]_vars

\* in dry-run without the override, a request has approved a PENDING
\* proposal and reported the application skipped
C7_Witness ==
    \E r \in ReqIds :
        /\ dry_run /\ ~allow_approve_in_dry_run
        /\ reqs[r].pc = "done" /\ reqs[r].result.kind = "approved"
        /\ reqs[r].result.application.kind = "skipped"
        /\ Get(reqs[r].proposal).status = "PENDING"

\* C8: every create_proposal call in dry-run inserts no proposal, appends a
\* PROPOSAL_DRY_RUN entry to the event log and returns a local id; outside
\* dry-run (the insert succeeding) it appends one PENDING proposal and
\* returns that row's id.
C8_CreateProposalEffects ==
    \A i \in 1..Len(create_calls) :
        LET c == create_calls[i]
        IN IF c.dry_run
           THEN /\ c.proposals_after = c.proposals_before
                /\ c.id.src = "uuid4"
                /\ Len(c.events_after) = Len(c.events_before) + 1
                /\ c.events_after[Len(c.events_after)].stage = "PROPOSAL_DRY_RUN"
           ELSE c.store_ok =>
                /\ Len(c.proposals_after) = Len(c.proposals_before) + 1
                /\ SubSeq(c.proposals_after, 1, Len(c.proposals_before))
                      = c.proposals_before
                /\ c.proposals_after[Len(c.proposals_after)].status = "PENDING"
                /\ c.proposals_after[Len(c.proposals_after)].proposal_type
                      = c.proposal_type
                /\ c.id = c.proposals_after[Len(c.proposals_after)].id

\* C9: two match_item calls of one run on the same description return the
\* same canonical_item_id and match_type.
C9_MatchIdempotent ==
    \A i, j \in 1..Len(match_results) :
        match_results[i].description = match_results[j].description =>
            /\ match_results[i].result.canonical_item_id
                  = match_results[j].result.canonical_item_id
            /\ match_results[i].result.match_type
                  = match_results[j].result.match_type

\* the same description matched twice, exactly, the synonyms never loaded
C9_Witness ==
    /\ Len(match_results) = 2
    /\ match_results[1].description = match_results[2].description
    /\ match_results[2].result.match_type = "exact"
    /\ synonym_cache = None

\* C10: the verdict is PASS when no score is present or all present scores
\* are >= 0.8, FAIL when some present score is < 0.6, WARN otherwise.
C10_VerdictBounds ==
    verdict_out \in {"PASS", "WARN", "FAIL"} =>
        LET present == {k \in DOMAIN scores_dict : scores_dict[k] # None}
            Val(k) == scores_dict[k][1]
            AllHigh == \A k \in present : 10 * Val(k).n >= 8 * Val(k).d
            AnyLow == \E k \in present : 10 * Val(k).n < 6 * Val(k).d
        IN /\ AllHigh => verdict_out = "PASS"
           /\ AnyLow => verdict_out = "FAIL"
           /\ (~AllHigh /\ ~AnyLow) => verdict_out = "WARN"

\* a dictionary with an absent score and a lowest present score of exactly
\* 0.8, judged PASS
C10_Witness ==
    /\ verdict_out = "PASS"
    /\ \E k \in DOMAIN scores_dict : scores_dict[k] = None
    /\ \E k \in DOMAIN scores_dict : scores_dict[k] = <<[n |-> 4, d |-> 5]>>

\* C11: a judged item whose fingerprint has no gold label gets None for
\* decision_correct, policy_justified and match_correct, whatever decision
\* was predicted, and the returned judgement omits them; for every judged
\* item price_check_correct is None exactly when no price band was supplied.
C11_NoGoldScoresAbsent ==
    \A i \in 1..Len(stage_calls) :
        stage_calls[i].stage = "judge" =>
            LET c == stage_calls[i]
                GoldKeys == {"decision_correct", "policy_justified", "match_correct"}
                has_gold == \E g \in 1..Len(agent_golden_labels) :
                    agent_golden_labels[g].line_item_fingerprint = c.fingerprint
            IN /\ ~has_gold =>
                    /\ \A k \in GoldKeys : c.scores[k] = <<>>
                    /\ c.returned # <<>> =>
                           GoldKeys \cap DOMAIN c.returned[1].scores = {}
               /\ (c.scores["price_check_correct"] = <<>>) <=> (c.price_band = <<>>)
               /\ c.returned # <<>> =>
                    ("price_check_correct" \in DOMAIN c.returned[1].scores)
                        <=> (c.price_band # <<>>)

\* an item without gold label, denied on a supplied price band, was judged
\* and its returned scores hold price_check_correct but no gold-based score
C11_Witness ==
    \E i \in 1..Len(stage_calls) :
        /\ stage_calls[i].stage = "judge"
        /\ stage_calls[i].fingerprint[1] # <<"a", "b", "c", "a">>
        /\ stage_calls[i].price_band # <<>>
        /\ stage_calls[i].decision_data.decision = "DENY"
        /\ stage_calls[i].returned # <<>>
        /\ "price_check_correct" \in DOMAIN stage_calls[i].returned[1].scores
        /\ "decision_correct" \notin DOMAIN stage_calls[i].returned[1].scores

\* C12: a tool cache does not lack a committed approval effect (a new
\* synonym, an adjusted or new price range) forever: in a process that keeps
\* serving runs, again and again every loaded cache agrees with the store.
C12_BoundedStaleness ==
    []<>( /\ (\E i \in 1..Len(apply_writes) : apply_writes[i].table = "synonyms")
             => synonym_cache \in {<<>>, <<synonyms>>}
          /\ (\E i \in 1..Len(apply_writes) :
                 apply_writes[i].table = "item_price_ranges")
             => /\ price_range_cache \in {<<>>, <<item_price_ranges>>}
                /\ rules_price_ranges_cache \in {<<>>, <<item_price_ranges>>} )

\* C13 (as stated): no run of the relearn job or of the bootstrap job, with
\* any flags or arguments, changes the price-range table.
C13_JobsNeverWriteRanges ==
    \A i \in 1..Len(stage_calls) :
        stage_calls[i].stage \in {"relearn", "bootstrap"} =>
            stage_calls[i].ranges_after = stage_calls[i].ranges_before

\* C13 (amended): the relearn job never changes the price-range table and
\* emits only PRICE_RANGE_ADJUST proposals, whatever its flags; the bootstrap
\* job does the same when run with apply false, and with apply true it
\* creates no proposal (its bands go to the table directly).
C13_ProposalOnlyUnlessApply ==
    \A i \in 1..Len(stage_calls) :
        LET c == stage_calls[i]
        IN c.stage \in {"relearn", "bootstrap"} =>
            /\ (c.stage = "relearn" \/ ~c.apply) =>
                  c.ranges_after = c.ranges_before
            /\ (c.stage = "bootstrap" /\ c.apply) => c.creates = <<>>
            /\ \A k \in 1..Len(c.creates) :
                  c.creates[k].proposal_type = "PRICE_RANGE_ADJUST"

\* a bootstrap run without apply over two items proposed a band for each
\* and left the price-range table as it was
C13_Witness ==
    \E i \in 1..Len(stage_calls) :
        /\ stage_calls[i].stage = "bootstrap" /\ ~stage_calls[i].apply
        /\ Len(stage_calls[i].creates) = 2
        /\ stage_calls[i].ranges_after = stage_calls[i].ranges_before
        /\ item_price_ranges = PriceTable

\* C14: with JUDGE_ENABLED false no judge of any kind is invoked for any item
\* or stage: no deterministic scoring has run, no stage output has been
\* handed to an LLM judge, no judgement record exists and no decision carries
\* a judgement.
C14_JudgeDisabledNoJudge ==
    (~judge_enabled) =>
       /\ \A i \in 1..Len(stage_calls) :
             /\ stage_calls[i].stage # "judge"
             /\ stage_calls[i].stage \in {"match", "price", "rules", "crew"}
                => stage_calls[i].agent_judge = "none"
       /\ agent_judgements = <<>>
       /\ \A id \in DOMAIN decisions : decisions[id].judgement = None
       /\ (run_pc = "done" /\ result.status = "returned")
          => \A id \in DOMAIN result.decisions :
                result.decisions[id].judgement = None

\* C15: on a freshly obtained client, is_available() initializes the client:
\* with a key configured and the OpenAI constructor succeeding the
\* constructor has been called exactly once and the answer is true; with the
\* key missing or the constructor failing the answer is false, and a
\* chat_completion that follows raises 'OpenRouter client not available'.
C15_IsAvailableInitializes ==
    \A i \in 1..Len(llm_calls) :
        LET c == llm_calls[i]
            fresh == \A k \in 1..(i - 1) : llm_calls[k].op = "get_llm"
            usable == llm_env.api_key \notin {NoneS, ""} /\ llm_env.openai_ok
        IN (c.op = "is_available" /\ fresh) =>
              /\ usable => (c.result = "true" /\ c.constructed = 1)
              /\ ~usable => c.result = "false"
              /\ (~usable /\ i < Len(llm_calls)
                  /\ llm_calls[i + 1].op = "chat_completion")
                 => llm_calls[i + 1].result =
                        "RuntimeError: OpenRouter client not available"

\* C16: the pipeline_stats of a returned run: total_items is the number of
\* decisions, the three decision counts add up to it, matched_items is at
\* most total_items, match_rate is matched_items / total_items and
\* approval_rate is decisions.ALLOW / total_items; a run without items
\* reports total_items = 0 and no ratio at all.
C16_SummaryStats ==
    (enabled /\ run_pc = "done") =>
        LET st == result.pipeline_stats
            decs == result.decisions
            n == Cardinality(DOMAIN decs)
            allow == Cardinality({k \in DOMAIN decs : decs[k].decision = "ALLOW"})
            matched == Cardinality({k \in DOMAIN decs :
                                      decs[k].canonical_item_id # NoneS})
        IN /\ st.total_items = n
           /\ n = 0 => DOMAIN st = {"total_items"}
           /\ n > 0 =>
                /\ st.decisions["ALLOW"] + st.decisions["DENY"]
                      + st.decisions["NEEDS_MORE_INFO"] = st.total_items
                /\ st.decisions["ALLOW"] = allow
                /\ st.matched_items = matched
                /\ st.matched_items <= st.total_items
                /\ st.match_rate = R(st.matched_items, st.total_items)
                /\ st.approval_rate = R(st.decisions["ALLOW"], st.total_items)
                /\ st.match_rate.d # 0 /\ st.approval_rate.d # 0

\* a returned run over two items, one allowed and one not, one of them
\* unmatched
C16_Witness ==
    /\ enabled /\ run_pc = "done"
    /\ result.pipeline_stats.total_items = 2
    /\ result.pipeline_stats.decisions["ALLOW"] = 1
    /\ result.pipeline_stats.matched_items = 1

\* C17: every check of the rule table is evaluated on every call: each
\* policy code is in policy_codes exactly when its condition holds, the
\* codes in the table's order, also when the price is above max_price x 1.5
\* and below min_price x 0.5 at once.
C17_AllChecksEvaluated ==
    \A i \in 1..Len(stage_calls) :
        stage_calls[i].stage = "apply_rules" =>
            LET c == stage_calls[i]
                band == c.price_band
                Holds(code) ==
                    CASE code = "NO_CANONICAL_MATCH" -> c.canonical_item_id = NoneS
                      [] code = "NO_PRICE_BAND" ->
                            c.canonical_item_id # NoneS /\ band = None
                      [] code = "PRICE_EXCEEDS_MAX_150" ->
                            /\ band # None
                            /\ 2 * c.unit_price > 3 * band[1].max_price
                      [] code = "PRICE_BELOW_MIN_50" ->
                            /\ band # None
                            /\ band[1].min_price > 0
                            /\ 2 * c.unit_price < band[1].min_price
                      [] code = "VENDOR_EXCLUDED_BY_RULE:" ->
                            _check_vendor_exclusion(c.vendor_id) # NoneS
                      [] code = "QUANTITY_OVER_LIMIT:" ->
                            _check_quantity_limits(c.canonical_item_id,
                                                   c.quantity) # NoneS
                      [] code = "BLACKLISTED_ITEM:" ->
                            _check_item_blacklist(c.canonical_item_id) # NoneS
                Prefix(code) == IF Len(code) = 2 /\ code \notin STRING
                                THEN code[1] ELSE code
                table == <<"NO_CANONICAL_MATCH", "NO_PRICE_BAND",
                           "PRICE_EXCEEDS_MAX_150", "PRICE_BELOW_MIN_50",
                           "VENDOR_EXCLUDED_BY_RULE:", "QUANTITY_OVER_LIMIT:",
                           "BLACKLISTED_ITEM:">>
                expected == SelectSeq(table, Holds)
                codes == c.result.policy_codes
            IN /\ Len(codes) = Len(expected)
               /\ \A k \in 1..Len(codes) : Prefix(codes[k]) = expected[k]

\* C18: the decision of apply_rules is the most severe outcome among the
\* codes that fired: DENY iff a DENY-severity code fired, NEEDS_MORE_INFO iff
\* codes fired and all of them are of NEEDS_MORE_INFO severity, ALLOW iff
\* none fired.  Checked on the result of every call, and on the code's
\* sequence of rule checks for every combination of rule ids the three
\* rule-based checks could hand back.
C18_MostSevereDecision ==
    \A i \in 1..Len(stage_calls) :
        stage_calls[i].stage = "apply_rules" =>
            LET c == stage_calls[i]
                IsInfo(code) == code \in {"NO_CANONICAL_MATCH", "NO_PRICE_BAND"}
                \* price_codes: the codes of rules 1-4; rule_codes: how many
                \* rule-based codes (all of DENY severity) follow them
                MostSevere(price_codes, rule_codes) ==
                    IF price_codes = <<>> /\ rule_codes = 0 THEN "ALLOW"
                    ELSE IF \/ rule_codes > 0
                            \/ \E k \in 1..Len(price_codes) : ~IsInfo(price_codes[k])
                         THEN "DENY"
                    ELSE "NEEDS_MORE_INFO"
                RuleIds == {NoneS, "r1"}
            IN /\ c.result.decision = MostSevere(c.result.policy_codes, 0)
               /\ \A v \in RuleIds, q \in RuleIds, b \in RuleIds :
                    LET s4 == rules_price_checks(c.canonical_item_id,
                                                 c.unit_price, c.price_band)
                        s5 == rules_rule_check(s4, "VENDOR_EXCLUDED_BY_RULE:", v)
                        s6 == rules_rule_check(s5, "QUANTITY_OVER_LIMIT:", q)
                        s7 == rules_rule_check(s6, "BLACKLISTED_ITEM:", b)
                    IN (IF s7.codes = <<>> THEN "ALLOW" ELSE s7.decision)
                       = MostSevere(s4.codes, Len(s7.codes) - Len(s4.codes))

\* a call that denied on the price falling below half the band's minimum
C18_Witness ==
    \E i \in 1..Len(stage_calls) :
        /\ stage_calls[i].stage = "apply_rules"
        /\ stage_calls[i].result.decision = "DENY"
        /\ stage_calls[i].result.policy_codes = <<"PRICE_BELOW_MIN_50">>

\* C19 (as stated): exact, then synonym, then fuzzy, the first hit winning:
\* a description equal to a canonical name is an exact match with confidence
\* 1.0 whatever the synonyms; else one equal to a synonym is a synonym match
\* with that synonym's stored confidence; fuzzy and none arise only when
\* both fail; a fuzzy match is the first candidate, canonical names before
\* synonyms, that reaches the highest score.
C19_MatchPriority ==
    \A i \in 1..Len(stage_calls) :
        stage_calls[i].stage = "match_item" =>
            LET c == stage_calls[i]
                canon == c.canon
                syns == c.syns
                res == c.result
                dc == lower(strip(c.description))
                Live(k) == \E j \in 1..Len(canon) :
                               canon[j].id = syns[k].canonical_item_id
                First(hits) == CHOOSE k \in hits : \A j \in hits : k <= j
                exact_hits == {k \in 1..Len(canon) : strip(lower(canon[k].name)) = dc}
                syn_hits == {k \in 1..Len(syns) : strip(lower(syns[k].synonym)) = dc}
                \* fuzzy candidates in encounter order: canonical names, then
                \* synonyms
                cands == 1..(Len(canon) + Len(syns))
                Score(k) == IF k <= Len(canon)
                            THEN ratio(dc, lower(canon[k].name))
                            ELSE ratio(dc, lower(syns[k - Len(canon)].synonym))
                Id(k) == IF k <= Len(canon) THEN canon[k].id
                         ELSE syns[k - Len(canon)].canonical_item_id
                top == {k \in cands : \A j \in cands : RLeq(Score(j), Score(k))}
            IN /\ exact_hits # {} =>
                    /\ res.match_type = "exact"
                    /\ res.confidence = R(1, 1)
                    /\ res.canonical_item_id = canon[First(exact_hits)].id
               /\ (exact_hits = {} /\ syn_hits # {}) =>
                    /\ res.match_type = "synonym"
                    /\ res.confidence = syns[First(syn_hits)].confidence
                    /\ res.canonical_item_id = syns[First(syn_hits)].canonical_item_id
               /\ res.match_type \in {"fuzzy", "none"} =>
                    exact_hits = {} /\ syn_hits = {}
               /\ res.match_type = "fuzzy" =>
                    /\ res.canonical_item_id = Id(First(top))
                    /\ REq(res.confidence, Score(First(top)))

\* C19 (amended): the same, where the synonyms that count, for the synonym
\* step and as fuzzy candidates, are those whose canonical item is in the
\* loaded catalog.
C19_MatchPriorityLiveSynonyms ==
    \A i \in 1..Len(stage_calls) :
        stage_calls[i].stage = "match_item" =>
            LET c == stage_calls[i]
                canon == c.canon
                syns == c.syns
                res == c.result
                dc == lower(strip(c.description))
                Live(k) == \E j \in 1..Len(canon) :
                               canon[j].id = syns[k].canonical_item_id
                First(hits) == CHOOSE k \in hits : \A j \in hits : k <= j
                exact_hits == {k \in 1..Len(canon) : strip(lower(canon[k].name)) = dc}
                syn_hits == {k \in 1..Len(syns) : /\ strip(lower(syns[k].synonym)) = dc
                                                  /\ Live(k)}
                \* fuzzy candidates in encounter order: canonical names, then
                \* synonyms
                cands == (1..Len(canon)) \cup {Len(canon) + k : k \in {j \in 1..Len(syns) : Live(j)}}
                Score(k) == IF k <= Len(canon)
                            THEN ratio(dc, lower(canon[k].name))
                            ELSE ratio(dc, lower(syns[k - Len(canon)].synonym))
                Id(k) == IF k <= Len(canon) THEN canon[k].id
                         ELSE syns[k - Len(canon)].canonical_item_id
                top == {k \in cands : \A j \in cands : RLeq(Score(j), Score(k))}
            IN /\ exact_hits # {} =>
                    /\ res.match_type = "exact"
                    /\ res.confidence = R(1, 1)
                    /\ res.canonical_item_id = canon[First(exact_hits)].id
               /\ (exact_hits = {} /\ syn_hits # {}) =>
                    /\ res.match_type = "synonym"
                    /\ res.confidence = syns[First(syn_hits)].confidence
                    /\ res.canonical_item_id = syns[First(syn_hits)].canonical_item_id
               /\ res.match_type \in {"fuzzy", "none"} =>
                    exact_hits = {} /\ syn_hits = {}
               /\ res.match_type = "fuzzy" =>
                    /\ res.canonical_item_id = Id(First(top))
                    /\ REq(res.confidence, Score(First(top)))

\* a description that equals a canonical name and a synonym of another item,
\* matched exact
C19_Witness ==
    \E i \in 1..Len(stage_calls) :
        /\ stage_calls[i].stage = "match_item"
        /\ stage_calls[i].result.match_type = "exact"
        /\ \E k \in 1..Len(stage_calls[i].syns) :
              /\ strip(lower(stage_calls[i].syns[k].synonym))
                    = lower(strip(stage_calls[i].description))
              /\ stage_calls[i].syns[k].canonical_item_id
                    # stage_calls[i].result.canonical_item_id

\* C20: a fuzzy match is returned only with a best score of at least 0.60;
\* when the description equals no canonical name and no synonym and no
\* candidate reaches 0.60, and whenever the description is empty or only
\* whitespace, the result is match_type none with confidence 0, no
\* canonical item and no proposal (none asked for, none stored).
C20_FuzzyThreshold ==
    \A i \in 1..Len(stage_calls) :
        stage_calls[i].stage = "match_item" =>
            LET c == stage_calls[i]
                canon == c.canon
                syns == c.syns
                res == c.result
                dc == lower(strip(c.description))
                Live(k) == \E j \in 1..Len(canon) :
                               canon[j].id = syns[k].canonical_item_id
                exact_hit == \E k \in 1..Len(canon) : strip(lower(canon[k].name)) = dc
                syn_hit == \E k \in 1..Len(syns) :
                               strip(lower(syns[k].synonym)) = dc /\ Live(k)
                reaches == \/ \E k \in 1..Len(canon) :
                                 RLeq(R(60, 100), ratio(dc, lower(canon[k].name)))
                           \/ \E k \in 1..Len(syns) :
                                 /\ Live(k)
                                 /\ RLeq(R(60, 100), ratio(dc, lower(syns[k].synonym)))
                IsNoneResult ==
                    /\ res.match_type = "none"
                    /\ res.confidence = R(0, 1)
                    /\ res.canonical_item_id = NoneS
                    /\ res.proposal_id = NoId
                    /\ c.create_proposal_calls = 0 /\ c.proposals_created = 0
            IN /\ res.match_type = "fuzzy" =>
                    RLeq(R(60, 100), res.confidence) /\ reaches
               /\ (~exact_hit /\ ~syn_hit /\ ~reaches) => IsNoneResult
               /\ dc = <<>> => IsNoneResult

\* a fuzzy match accepted with a score of exactly 0.60
C20_Witness ==
    \E i \in 1..Len(stage_calls) :
        /\ stage_calls[i].stage = "match_item"
        /\ stage_calls[i].result.match_type = "fuzzy"
        /\ REq(stage_calls[i].result.confidence, R(60, 100))

\* index in create_calls of the create_proposal call made by call i
create_index(i) ==
    Cardinality({j \in 1..i : stage_calls[j].create_proposal_calls = 1})

\* C21: match_item asks for a NEW_SYNONYM proposal exactly when its result
\* is a fuzzy match whose winning score lies in [0.75, 0.85], both ends
\* included; the proposal carries the matched canonical item id, the
\* normalized description as synonym and the score as confidence, and is
\* the row stored when the store accepts the insert; exact, synonym and
\* none results never ask for a proposal.
C21_SynonymProposalBand ==
    \A i \in 1..Len(stage_calls) :
        stage_calls[i].stage = "match_item" =>
            LET c == stage_calls[i]
                res == c.result
                dc == lower(strip(c.description))
                in_band == /\ res.match_type = "fuzzy"
                           /\ RLeq(R(75, 100), res.confidence)
                           /\ RLeq(res.confidence, R(85, 100))
            IN /\ (c.create_proposal_calls = 1) <=> in_band
               /\ c.create_proposal_calls \in {0, 1}
               /\ res.match_type \in {"exact", "synonym", "none"} =>
                    /\ c.create_proposal_calls = 0
                    /\ c.proposals_created = 0
                    /\ res.proposal_id = NoId
               /\ c.create_proposal_calls = 0 => c.proposals_created = 0
               /\ c.create_proposal_calls = 1 =>
                    /\ create_index(i) \in 1..Len(create_calls)
                    /\ LET k == create_calls[create_index(i)]
                       IN /\ k.proposal_type = "NEW_SYNONYM"
                          /\ k.payload.canonical_item_id = res.canonical_item_id
                          /\ k.payload.synonym = dc
                          /\ k.payload.confidence = res.confidence
                          /\ res.proposal_id = k.id
                          /\ (~k.dry_run /\ k.store_ok) =>
                               /\ c.proposals_created = 1
                               /\ k.proposals_after[Len(k.proposals_after)].payload
                                    = k.payload
                               /\ k.proposals_after[Len(k.proposals_after)].proposal_type
                                    = "NEW_SYNONYM"

\* a fuzzy match with a score of exactly 0.75 whose proposal was stored
C21_Witness ==
    \E i \in 1..Len(stage_calls) :
        /\ stage_calls[i].stage = "match_item"
        /\ stage_calls[i].result.match_type = "fuzzy"
        /\ REq(stage_calls[i].result.confidence, R(75, 100))
        /\ stage_calls[i].create_proposal_calls = 1
        /\ stage_calls[i].proposals_created = 1

\* a fuzzy match above the band (score in (0.85, 1)) with no proposal
C21_WitnessAbove ==
    \E i \in 1..Len(stage_calls) :
        /\ stage_calls[i].stage = "match_item"
        /\ stage_calls[i].result.match_type = "fuzzy"
        /\ RLess(R(85, 100), stage_calls[i].result.confidence)
        /\ stage_calls[i].create_proposal_calls = 0

\* the validate_price calls of the call log
price_calls == {i \in 1..Len(stage_calls) : stage_calls[i].stage = "validate_price"}

\* call i was answered from a band: is_valid true exactly on [min, max],
\* variance 0 inside the band and positive outside
band_answer(i) ==
    LET c == stage_calls[i]
        mn == Get(c.price_band).min_price
        mx == Get(c.price_band).max_price
        inside == mn <= c.unit_price /\ c.unit_price <= mx
    IN /\ ~c.raised
       /\ c.result.is_valid <=> inside
       /\ c.result.expected_range = Some(<<mn, mx>>)
       /\ ~IsNone(c.result.variance_percent)
       /\ inside => REq(Get(c.result.variance_percent), R(0, 1))
       /\ ~inside => RLess(R(0, 1), Get(c.result.variance_percent))

\* calls i and j saw the same band and j's price lies further outside it,
\* on the same side, than i's
further_outside(i, j) ==
    LET a == stage_calls[i]
        b == stage_calls[j]
    IN /\ a.canonical_item_id # NoneS /\ ~IsNone(a.price_band)
       /\ b.price_band = a.price_band
       /\ \/ b.unit_price < a.unit_price
             /\ a.unit_price < Get(a.price_band).min_price
          \/ b.unit_price > a.unit_price
             /\ a.unit_price > Get(a.price_band).max_price

\* call i had no canonical item or no band: valid, nothing else reported
no_band_answer(i) ==
    LET c == stage_calls[i]
    IN /\ ~c.raised
       /\ c.result.is_valid
       /\ IsNone(c.result.expected_range)
       /\ IsNone(c.result.variance_percent)
       /\ c.result.proposal_id = NoId
       /\ c.create_proposal_calls = 0 /\ c.proposals_created = 0

\* C22: for a fixed band [min, max], validate_price returns is_valid true
\* exactly when min <= unit_price <= max; variance_percent is 0 inside the
\* band and strictly increasing as the price moves further below min or
\* above max; without a canonical item or without a band the result is
\* valid with no expected range, no variance and no proposal.
C22_PriceBandMonotone ==
    /\ \A i \in price_calls :
          IF stage_calls[i].canonical_item_id = NoneS
             \/ IsNone(stage_calls[i].price_band)
          THEN no_band_answer(i)
          ELSE band_answer(i)
    /\ \A i \in price_calls : \A j \in price_calls :
          further_outside(i, j) =>
              /\ ~stage_calls[i].raised /\ ~stage_calls[j].raised
              /\ RLess(Get(stage_calls[i].result.variance_percent),
                       Get(stage_calls[j].result.variance_percent))

\* C22 on bands with 0 < min_price <= max_price only
C22_PositiveBands ==
    LET Positive(i) == \/ stage_calls[i].canonical_item_id = NoneS
                       \/ IsNone(stage_calls[i].price_band)
                       \/ /\ 0 < Get(stage_calls[i].price_band).min_price
                          /\ Get(stage_calls[i].price_band).min_price
                               <= Get(stage_calls[i].price_band).max_price
    IN /\ \A i \in price_calls :
             Positive(i) =>
                 IF stage_calls[i].canonical_item_id = NoneS
                    \/ IsNone(stage_calls[i].price_band)
                 THEN no_band_answer(i)
                 ELSE band_answer(i)
       /\ \A i \in price_calls : \A j \in price_calls :
             (Positive(i) /\ further_outside(i, j)) =>
                 /\ ~stage_calls[i].raised /\ ~stage_calls[j].raised
                 /\ RLess(Get(stage_calls[i].result.variance_percent),
                          Get(stage_calls[j].result.variance_percent))

\* two calls on the band [100, 200], the second price further above max
C22_PositiveBandsReached ==
    \E i \in price_calls : \E j \in price_calls :
        /\ further_outside(i, j)
        /\ Get(stage_calls[i].price_band).min_price = 100
        /\ stage_calls[i].unit_price = 240 /\ stage_calls[j].unit_price = 260

\* the band [0, 0] with a price above it: ZeroDivisionError, no result
C22_ZeroBandRaises ==
    \E i \in price_calls :
        /\ stage_calls[i].raised
        /\ Get(stage_calls[i].price_band).max_price = 0
        /\ stage_calls[i].unit_price = 40

\* C23: validate_price asks for a PRICE_RANGE_ADJUST proposal exactly when
\* variance_percent is strictly greater than 0.20; the proposed range
\* changes only the violated bound, to unit_price x 0.95 for a price below
\* min and to unit_price x 1.05 for a price above max, and keeps the other
\* bound.
C23_RangeAdjustProposal ==
    \A i \in price_calls :
        LET c == stage_calls[i]
            answered == ~c.raised /\ ~IsNone(c.result.variance_percent)
            significant == answered
                           /\ RLess(R(20, 100), Get(c.result.variance_percent))
        IN /\ (c.create_proposal_calls = 1) <=> significant
           /\ c.create_proposal_calls \in {0, 1}
           /\ c.create_proposal_calls = 0 =>
                /\ c.proposals_created = 0
                /\ c.raised \/ c.result.proposal_id = NoId
           /\ c.create_proposal_calls = 1 =>
                /\ create_index(i) \in 1..Len(create_calls)
                /\ LET k == create_calls[create_index(i)]
                       mn == Get(c.price_band).min_price
                       mx == Get(c.price_band).max_price
                   IN /\ k.proposal_type = "PRICE_RANGE_ADJUST"
                      /\ k.payload.canonical_item_id = c.canonical_item_id
                      /\ c.result.proposal_id = k.id
                      /\ IF c.unit_price < mn
                         THEN /\ k.payload.new_range[1] * 100 = c.unit_price * 95
                              /\ k.payload.new_range[2] = mx
                         ELSE /\ c.unit_price > mx
                              /\ k.payload.new_range[1] = mn
                              /\ k.payload.new_range[2] * 100 = c.unit_price * 105
                      /\ (~k.dry_run /\ k.store_ok) =>
                           /\ c.proposals_created = 1
                           /\ k.proposals_after[Len(k.proposals_after)].payload
                                = k.payload

\* a price 30% above max with its proposal stored, after a call with a
\* variance of exactly 0.20 that asked for none
C23_Witness ==
    \E i \in price_calls : \E j \in price_calls :
        /\ i < j
        /\ ~stage_calls[i].raised /\ ~stage_calls[j].raised
        /\ stage_calls[i].unit_price = 240
        /\ ~IsNone(stage_calls[i].result.variance_percent)
        /\ REq(Get(stage_calls[i].result.variance_percent), R(1, 5))
        /\ stage_calls[i].create_proposal_calls = 0
        /\ stage_calls[j].unit_price = 260
        /\ stage_calls[j].create_proposal_calls = 1
        /\ stage_calls[j].proposals_created = 1

\* a price below min whose proposal lowers min only
C23_WitnessBelow ==
    \E i \in price_calls :
        /\ stage_calls[i].create_proposal_calls = 1
        /\ stage_calls[i].unit_price < Get(stage_calls[i].price_band).min_price
        /\ Get(stage_calls[i].price_band).min_price
             <= Get(stage_calls[i].price_band).max_price

\* the score_price_check calls of the call log
score_calls ==
    {i \in 1..Len(stage_calls) : stage_calls[i].stage = "score_price_check"}

\* C24: the judge's price check agrees with the Rule Engine: given the Rule
\* Engine's own decision and policy_codes for a price and band it scores
\* 1.0, and it scores 0.0 whenever a price code is missing, extra, or
\* paired with a decision other than DENY.
C24_PriceCheckAgreesWithRules ==
    \A i \in score_calls :
        LET c == stage_calls[i]
            expected == SeqToSet(c.rule_result.policy_codes) \cap PriceCodes
            actual == SeqToSet(c.policy_codes) \cap PriceCodes
            own == /\ c.decision = c.rule_result.decision
                   /\ c.policy_codes = c.rule_result.policy_codes
            missing == expected \ actual # {}
            extra == actual \ expected # {}
            not_denied == actual # {} /\ c.decision # "DENY"
        IN IF IsNone(c.price_band)
           THEN IsNone(c.score)
           ELSE /\ ~IsNone(c.score)
                /\ own => REq(Get(c.score), R(1, 1))
                /\ (missing \/ extra \/ not_denied) => REq(Get(c.score), R(0, 1))
                /\ REq(Get(c.score), R(0, 1)) \/ REq(Get(c.score), R(1, 1))

\* the Rule Engine's own DENY with PRICE_BELOW_MIN_50 scored 1.0
C24_Witness ==
    \E i \in score_calls :
        /\ ~IsNone(stage_calls[i].price_band)
        /\ stage_calls[i].rule_result.policy_codes = <<"PRICE_BELOW_MIN_50">>
        /\ stage_calls[i].decision = stage_calls[i].rule_result.decision
        /\ stage_calls[i].policy_codes = stage_calls[i].rule_result.policy_codes
        /\ REq(Get(stage_calls[i].score), R(1, 1))

\* the expected code paired with ALLOW scored 0.0
C24_WitnessNotDenied ==
    \E i \in score_calls :
        /\ ~IsNone(stage_calls[i].price_band)
        /\ stage_calls[i].rule_result.policy_codes = <<"PRICE_EXCEEDS_MAX_150">>
        /\ stage_calls[i].policy_codes = <<"PRICE_EXCEEDS_MAX_150">>
        /\ stage_calls[i].decision = "ALLOW"
        /\ REq(Get(stage_calls[i].score), R(0, 1))

\* call r of _apply_proposal returns in this step without an error
apply_returns(r) ==
    /\ reqs[r].pc \in {"apply", "apply_insert"}
    /\ reqs'[r].pc = "log"
    /\ reqs'[r].application.kind # "error"

\* rows of a synonym table with the payload's (canonical_item_id, synonym)
synonym_rows(syns, payload) ==
    {i \in 1..Len(syns) : /\ syns[i].canonical_item_id = payload.canonical_item_id
                          /\ syns[i].synonym = payload.synonym}

\* rows of a range table for the payload's item, and those with its bounds
range_rows(ranges, payload) ==
    {i \in 1..Len(ranges) : ranges[i].canonical_item_id = payload.canonical_item_id}

proposed_rows(ranges, payload) ==
    {i \in range_rows(ranges, payload) :
        /\ ranges[i].min_price = payload.new_range[1]
        /\ ranges[i].max_price = payload.new_range[2]}

C25_WitnessSynonym ==
    /\ reqs[1].pc = "log" /\ reqs[1].application.kind = "created"
    /\ reqs[2].pc = "log" /\ reqs[2].application.kind = "already_exists"
    /\ Get(reqs[1].proposal).payload = Get(reqs[2].proposal).payload
    /\ Get(reqs[1].proposal).proposal_type = "NEW_SYNONYM"

\* the change a proposal asks for is in the store
effect_present(proposal) ==
    LET payload == proposal.payload
    IN CASE proposal.proposal_type = "NEW_SYNONYM" ->
              synonym_rows(synonyms, payload) # {}
         [] proposal.proposal_type = "PRICE_RANGE_ADJUST" ->
              proposed_rows(item_price_ranges, payload) # {}
         [] proposal.proposal_type = "NEW_RULE" ->
              \E i \in 1..Len(business_rules) :
                  business_rules[i].rule_type = payload.rule_type
         [] OTHER ->
              \E i \in 1..Len(canonical_items) :
                  canonical_items[i].name = payload.name

\* C26: whenever a request has turned a proposal to APPROVED with applying
\* enabled and has returned, the proposal's effect is present in the store:
\* a failure of the apply step never leaves the proposal APPROVED with no
\* effect.
C26_ApprovedImpliesApplied ==
    \A r \in DOMAIN reqs :
        (/\ reqs[r].pc = "done"
         /\ reqs[r].transitioned
         /\ should_apply(dry_run, allow_approve_in_dry_run)
         /\ ~IsNone(reqs[r].row_at_return)
         /\ Get(reqs[r].row_at_return).status = "APPROVED")
        => effect_present(Get(reqs[r].proposal))

\* a later attempt on such a proposal is answered already_processed
C26_StuckApproved ==
    \E r \in DOMAIN reqs : \E q \in DOMAIN reqs :
        /\ reqs[r].pc = "done" /\ reqs[r].transitioned
        /\ reqs[r].application.kind = "error"
        /\ ~effect_present(Get(reqs[r].proposal))
        /\ reqs[q].pc = "done" /\ reqs[q].order > reqs[r].order
        /\ reqs[q].proposal_id = reqs[r].proposal_id
        /\ reqs[q].result.kind = "already_processed"

\* C27: every proposal a producer hands to create_proposal carries the
\* payload fields the apply step of its type reads, so that approving it
\* never ends in an apply error for a missing field.
C27_ProducerPayloadAccepted ==
    \A i \in 1..Len(create_calls) :
        required_keys(create_calls[i].proposal_type)
            \subseteq create_calls[i].payload.keys

\* a stored relearn proposal without the new_range field
C27_RelearnPayloadRejected ==
    \E i \in 1..Len(stage_calls) : \E k \in 1..Len(agent_proposals) :
        /\ stage_calls[i].stage = "relearn"
        /\ agent_proposals[k].proposal_type = "PRICE_RANGE_ADJUST"
        /\ "new_range" \notin agent_proposals[k].payload.keys

\* the apply_rules calls of the call log
rule_calls == {i \in 1..Len(stage_calls) : stage_calls[i].stage = "apply_rules"}

\* the price lies outside the band but within 0.5 x min .. 1.5 x max
outside_within_limits(c) ==
    /\ ~IsNone(c.price_band)
    /\ \/ c.unit_price < Get(c.price_band).min_price
       \/ c.unit_price > Get(c.price_band).max_price
    /\ 2 * c.unit_price >= Get(c.price_band).min_price
    /\ 2 * c.unit_price <= 3 * Get(c.price_band).max_price

C29_SameBandBothStages ==
    \A i \in 1..Len(stage_calls) :
        (/\ stage_calls[i].stage = "price"
         /\ i < Len(stage_calls)
         /\ stage_calls[i + 1].stage = "rules")
        => stage_calls[i + 1].band = stage_calls[i].band

\* the price stage saw no band, the rules stage of the same item saw one
C29_BandsDiffer ==
    \E i \in 1..Len(stage_calls) :
        /\ stage_calls[i].stage = "price"
        /\ i < Len(stage_calls)
        /\ stage_calls[i + 1].stage = "rules"
        /\ stage_calls[i + 1].line_item_id = stage_calls[i].line_item_id
        /\ IsNone(stage_calls[i].band)
        /\ ~IsNone(stage_calls[i + 1].band)

\* ids the create_proposal calls of the run returned
created_ids == {create_calls[k].id : k \in 1..Len(create_calls)} \ {NoId}

\* the decisions map has one entry per input item, total_items counts the
\* input items, and the entries' proposals lists split the created ids
one_entry_per_item ==
    LET decs == result.decisions
    IN /\ Cardinality(DOMAIN decs) = Len(items)
       /\ result.pipeline_stats.total_items = Len(items)
       /\ \A k \in 1..Len(items) : items[k].id \in DOMAIN decs
       /\ UNION {SeqToSet(decs[id].proposals) : id \in DOMAIN decs} = created_ids
       /\ \A a \in DOMAIN decs : \A b \in DOMAIN decs :
             a # b => SeqToSet(decs[a].proposals) \cap SeqToSet(decs[b].proposals) = {}

\* C30: every enabled run that returns has exactly one decisions entry per
\* input item and pipeline_stats.total_items equal to the number of input
\* items, also when two items share an id; the entries' proposals lists
\* hold exactly the proposal ids created while processing their items.
C30_OneDecisionPerItem ==
    (enabled /\ run_pc = "done") => one_entry_per_item

\* C30 for runs whose items have pairwise different ids
C30_DistinctIds ==
    (/\ enabled /\ run_pc = "done"
     /\ \A a \in 1..Len(items) : \A b \in 1..Len(items) :
           a # b => items[a].id # items[b].id)
    => one_entry_per_item

\* a returned run over two items with the same id: one entry, total_items 1
C30_DuplicateIdsCollapse ==
    /\ enabled /\ run_pc = "done"
    /\ Len(items) = 2 /\ items[1].id = items[2].id
    /\ Cardinality(DOMAIN result.decisions) = 1
    /\ result.pipeline_stats.total_items = 1

\* a returned run over two items with different ids, one of them with two
\* proposals
C30_DistinctIdsReached ==
    /\ enabled /\ run_pc = "done"
    /\ Len(items) = 2 /\ items[1].id # items[2].id
    /\ \E id \in DOMAIN result.decisions :
          Len(result.decisions[id].proposals) = 2

====
